---------------------------- MODULE Spec2Model ----------------------------
(***************************************************************************)
(* CyberElites-Resources: the certificate generator, the bulk email        *)
(* sender, the QR code generator and their shared helpers                  *)
(* (Utilities/utils.py), as state machines over a small file system.       *)
(*                                                                         *)
(* A Python str is the sequence of its characters, a text file the str of  *)
(* its content, with "\n" between the lines.  None is the value NoneVal.   *)
(* The file system is POSIX: every character but "/" may occur in a file   *)
(* name.                                                                   *)
(***************************************************************************)
EXTENDS Integers, Sequences, FiniteSets, TLC

VARIABLES
    pc,             \* position of the running script
    exit_code,      \* -1 while running, else the exit status of the process
    wordlist_file,  \* content of the wordlist TXT file
    sort_ret,       \* what the last call of sort_wordlist returned
    first_file,     \* the wordlist file as the first sort_wordlist left it
    first_ret,      \* what the first sort_wordlist returned
    fonts_dir,      \* certificate flow: the file names in Fonts
    template_dir,   \* the file names in Certificate_Template
    wordlist_dir,   \* the file names in Wordlist
    wordlist_contents,  \* create_certificate: the lines read_wordlist returned
    idx,            \* the loops' position: the next line or row to process
    out_files,      \* the file names in Generated_Certificates
    tmp_writes,     \* how often tmp/tmp_certificate.pdf was written
    qr_typed,       \* QR flow: the lines typed at get_text's prompt so far
    text_lines,     \* get_text: the lines collected
    enter_pressed,  \* get_text: the count of empty lines in a row
    qr_text,        \* the text get_text returned
    qr_filename,    \* the file name generate_qrcode settled on
    qr_ext,         \* <<extension, image_format>> as extension_menu gave it
    qr_dir_exists,  \* whether the QRCodes directory exists
    qr_files,       \* the file names in QRCodes
    qr_path,        \* the file name generate_qrcode returned
    ext_typed,      \* extension_menu: what was typed at its prompt (None
                    \* when it has not been asked or has returned a format)
    automation_script,  \* email flow: run as "extract_certify_and_email_script"
    sys_argv_2,     \* email flow: sys.argv[2] (None: no such argument)
    EMAIL_SUBJECT,  \* email flow: the subject of the messages
    ATTACHMENT_MODE,    \* the attachment mode in force
    password_file,  \* content of gmail_app_password.txt (None: no such file)
    body_template_file, \* content of body_template.html (None: no such file)
    log_file_exists,    \* whether email_log.txt exists
    spreadsheet_dir,    \* the file names in Spreadsheet
    csv_file,       \* content of the CSV file (None: no such file)
    attachments_dir,    \* the file names in Attachments
    gen_certs_dir,  \* the file names in the generated-certificates directory
    common_attachments, \* send_bulk_emails: the first row's attachment list
    row_index,      \* send_bulk_emails: the row index it reports
    events          \* what the send loop did, one record per row it handled

sortVars == <<sort_ret, first_file, first_ret>>
certVars == <<fonts_dir, template_dir, wordlist_dir, wordlist_contents, idx,
              out_files, tmp_writes>>
getTextVars == <<qr_typed, text_lines, enter_pressed>>

qrVars ==
    <<getTextVars, qr_text, qr_filename, qr_ext, qr_dir_exists, qr_files,
      qr_path, ext_typed>>
mailVars == <<automation_script, sys_argv_2, EMAIL_SUBJECT,
              ATTACHMENT_MODE, password_file,
              body_template_file, log_file_exists, spreadsheet_dir, csv_file,
              attachments_dir, gen_certs_dir, common_attachments, row_index,
              events>>
vars == <<pc, exit_code, wordlist_file, sortVars, certVars, qrVars, mailVars>>

\* What the actions of one flow leave alone: the variables of the others.
notSort == <<certVars, qrVars, mailVars>>
notCert == <<wordlist_file, sortVars, qrVars, mailVars>>
notQr == <<wordlist_file, sortVars, template_dir, wordlist_dir,
           wordlist_contents, idx, out_files, tmp_writes, mailVars>>
notMail == <<wordlist_file, sortVars, fonts_dir, template_dir, wordlist_dir,
             wordlist_contents, out_files, tmp_writes, qrVars>>

-----------------------------------------------------------------------------
(* Bounds of the model.                                                    *)

\* Lines of a wordlist file.
MaxLines == 2

-----------------------------------------------------------------------------
(* Python str operations, on sequences of atoms.                           *)

NoneVal == <<"<None>">>

\* str.isspace() of one character (the whitespace the inputs use).
IsSpace(c) == c \in {" ", "\t", "\n"}

LowerCase ==
    <<"a", "b", "c", "d", "e", "f", "g", "h", "i", "j", "k", "l", "m",
      "n", "o", "p", "q", "r", "s", "t", "u", "v", "w", "x", "y", "z">>
UpperCase ==
    <<"A", "B", "C", "D", "E", "F", "G", "H", "I", "J", "K", "L", "M",
      "N", "O", "P", "Q", "R", "S", "T", "U", "V", "W", "X", "Y", "Z">>

IsUpper(c) == \E i \in 1..26 : UpperCase[i] = c
IsLower(c) == \E i \in 1..26 : LowerCase[i] = c
IsCased(c) == IsUpper(c) \/ IsLower(c)

Upper(c) == IF IsLower(c) THEN UpperCase[CHOOSE i \in 1..26 : LowerCase[i] = c] ELSE c
Lower(c) == IF IsUpper(c) THEN LowerCase[CHOOSE i \in 1..26 : UpperCase[i] = c] ELSE c

\* ord(): the code point of a character.
Ord(c) ==
    IF IsUpper(c) THEN 64 + (CHOOSE i \in 1..26 : UpperCase[i] = c)
    ELSE IF IsLower(c) THEN 96 + (CHOOSE i \in 1..26 : LowerCase[i] = c)
    ELSE CASE c = "\t" -> 9   [] c = "\n" -> 10 [] c = " " -> 32 [] c = "!" -> 33
           [] c = "\"" -> 34  [] c = "(" -> 40  [] c = ")" -> 41 [] c = "*" -> 42
           [] c = "," -> 44   [] c = "-" -> 45  [] c = "." -> 46 [] c = "/" -> 47
           [] c = "0" -> 48   [] c = "1" -> 49  [] c = "2" -> 50 [] c = "3" -> 51
           [] c = "4" -> 52   [] c = "5" -> 53  [] c = "6" -> 54 [] c = "7" -> 55
           [] c = "8" -> 56   [] c = "9" -> 57  [] c = ":" -> 58 [] c = ";" -> 59
           [] c = "<" -> 60   [] c = ">" -> 62  [] c = "?" -> 63 [] c = "@" -> 64
           [] c = "\\" -> 92  [] c = "_" -> 95  [] c = "{" -> 123 [] c = "|" -> 124
           [] c = "}" -> 125

\* str.lstrip()
RECURSIVE LStrip(_)
LStrip(s) == IF s # <<>> /\ IsSpace(Head(s)) THEN LStrip(Tail(s)) ELSE s

\* str.rstrip()
RECURSIVE RStrip(_)
RStrip(s) ==
    IF s # <<>> /\ IsSpace(s[Len(s)]) THEN RStrip(SubSeq(s, 1, Len(s) - 1)) ELSE s

\* str.strip()
Strip(s) == RStrip(LStrip(s))

\* str.title(): a cased character is upper-cased after an uncased one (or at
\* the start) and lower-cased after a cased one.
Title(s) ==
    [i \in 1..Len(s) |->
        IF i > 1 /\ IsCased(s[i - 1]) THEN Lower(s[i]) ELSE Upper(s[i])]

\* str.lower()
LowerStr(s) == [i \in 1..Len(s) |-> Lower(s[i])]

\* str.replace(old, new) for single characters.
Replace(s, old, new) == [i \in 1..Len(s) |-> IF s[i] = old THEN new ELSE s[i]]

\* c in s
Contains(s, c) == \E i \in 1..Len(s) : s[i] = c

\* s.count(c)
Count(s, c) == Cardinality({i \in 1..Len(s) : s[i] = c})

\* s.endswith(suffix)
EndsWith(s, suffix) ==
    /\ Len(s) >= Len(suffix)
    /\ SubSeq(s, Len(s) - Len(suffix) + 1, Len(s)) = suffix

\* s.startswith(prefix)
StartsWith(s, prefix) ==
    /\ Len(s) >= Len(prefix)
    /\ SubSeq(s, 1, Len(prefix)) = prefix

\* s.split(sep) for a one-character separator: always at least one piece.
RECURSIVE SplitOn(_, _)
SplitOn(s, sep) ==
    IF ~Contains(s, sep) THEN <<s>>
    ELSE LET i == CHOOSE k \in 1..Len(s) :
                      s[k] = sep /\ \A j \in 1..(k - 1) : s[j] # sep
         IN  <<SubSeq(s, 1, i - 1)>> \o SplitOn(SubSeq(s, i + 1, Len(s)), sep)

\* s.split(): the maximal runs of non-whitespace characters.
RECURSIVE SplitWs(_)
SplitWs(s) ==
    LET t == LStrip(s) IN
    IF t = <<>> THEN <<>>
    ELSE LET ends == {k \in 1..Len(t) : IsSpace(t[k])}
             n == IF ends = {} THEN Len(t) + 1
                  ELSE CHOOSE k \in ends : \A j \in ends : k <= j
         IN  <<SubSeq(t, 1, n - 1)>> \o SplitWs(SubSeq(t, n, Len(t)))

\* sep.join(parts)
RECURSIVE Join(_, _)
Join(sep, parts) ==
    IF parts = <<>> THEN <<>>
    ELSE IF Len(parts) = 1 THEN parts[1]
    ELSE parts[1] \o sep \o Join(sep, Tail(parts))

\* file.readlines(): the lines of a text, each with its "\n" (the last line
\* has none when the text does not end with one).
RECURSIVE ReadLines(_)
ReadLines(text) ==
    IF text = <<>> THEN <<>>
    ELSE IF ~Contains(text, "\n") THEN <<text>>
    ELSE LET i == CHOOSE k \in 1..Len(text) :
                      text[k] = "\n" /\ \A j \in 1..(k - 1) : text[j] # "\n"
         IN  <<SubSeq(text, 1, i)>> \o ReadLines(SubSeq(text, i + 1, Len(text)))

\* a < b for two str: lexicographic by code point.
RECURSIVE StrLess(_, _)
StrLess(a, b) ==
    IF b = <<>> THEN FALSE
    ELSE IF a = <<>> THEN TRUE
    ELSE IF Ord(Head(a)) # Ord(Head(b)) THEN Ord(Head(a)) < Ord(Head(b))
    ELSE StrLess(Tail(a), Tail(b))

\* One step of a stable insertion: x goes after every element not greater.
RECURSIVE InsertSorted(_, _)
InsertSorted(x, srt) ==
    IF srt = <<>> THEN <<x>>
    ELSE IF StrLess(x, Head(srt)) THEN <<x>> \o srt
    ELSE <<Head(srt)>> \o InsertSorted(x, Tail(srt))

\* sorted(list of str)
RECURSIVE Sorted(_)
Sorted(l) ==
    IF l = <<>> THEN <<>>
    ELSE InsertSorted(l[Len(l)], Sorted(SubSeq(l, 1, Len(l) - 1)))

\* [x for x in l if x.strip()]
RECURSIVE NonBlankOnly(_)
NonBlankOnly(l) ==
    IF l = <<>> THEN <<>>
    ELSE (IF Strip(Head(l)) # <<>> THEN <<Head(l)>> ELSE <<>>)
             \o NonBlankOnly(Tail(l))

Range(f) == {f[i] : i \in DOMAIN f}

\* The sequences over S of length 0..n.
SeqUpTo(S, n) == UNION {[1..k -> S] : k \in 0..n}

-----------------------------------------------------------------------------
(* Utilities/utils.py: sort_wordlist                                       *)

\* A sort that forgets the strip: the lines keep their line ends.
sorted_names_nostrip(content) ==
    LET kept == NonBlankOnly(ReadLines(content))
    IN  Sorted([i \in DOMAIN kept |-> Title(kept[i])])

\* sorted(name.title().strip() for name in names if name.strip())
sorted_names(content) ==
    LET kept == NonBlankOnly(ReadLines(content))
    IN  Sorted([i \in DOMAIN kept |-> Strip(Title(kept[i]))])

\* What sort_wordlist writes back: '\n'.join(sorted_names)
sort_wordlist_file(content) == Join(<<"\n">>, sorted_names(content))

-----------------------------------------------------------------------------
(* The lines a wordlist may hold.                                          *)

WordlistLines ==
    { <<"a">>, <<"B">>, <<"b", " ", "a">>, <<"b", " ", " ", "a">>,
      <<" ", "a", "b">>, <<"a", "\t">>, <<"b", "_", "a">>, <<"a", "/", "b">>,
      <<"a", ":", "b">>, <<" ">>, <<>> }

\* Every wordlist file of at most MaxLines lines, with or without a final
\* line end.
WordlistFiles ==
    LET bodies == {Join(<<"\n">>, ls) : ls \in SeqUpTo(WordlistLines, MaxLines)}
    IN  bodies \cup {b \o <<"\n">> : b \in bodies}

-----------------------------------------------------------------------------
(* The variables of a flow that is not running.                            *)

SortIdle ==
    /\ sort_ret = NoneVal
    /\ first_file = NoneVal
    /\ first_ret = NoneVal

CertIdle ==
    /\ fonts_dir = {}
    /\ template_dir = {}
    /\ wordlist_dir = {}
    /\ wordlist_contents = <<>>
    /\ idx = 0
    /\ out_files = {}
    /\ tmp_writes = 0

QrIdle ==
    /\ qr_typed = <<>>
    /\ text_lines = <<>>
    /\ enter_pressed = 0
    /\ qr_text = NoneVal
    /\ qr_filename = NoneVal
    /\ qr_ext = <<NoneVal, NoneVal>>
    /\ qr_dir_exists = FALSE
    /\ qr_files = {}
    /\ qr_path = NoneVal
    /\ ext_typed = NoneVal

\* __main__ line 196: EMAIL_SUBJECT = "Subject"
CONFIGURED_SUBJECT == <<"S", "u", "b", "j", "e", "c", "t">>

MailIdle ==
    /\ automation_script = FALSE
    /\ sys_argv_2 = NoneVal
    /\ EMAIL_SUBJECT = CONFIGURED_SUBJECT
    /\ ATTACHMENT_MODE = "Respective"
    /\ password_file = NoneVal
    /\ body_template_file = NoneVal
    /\ log_file_exists = FALSE
    /\ spreadsheet_dir = {}
    /\ csv_file = NoneVal
    /\ attachments_dir = {}
    /\ gen_certs_dir = {}
    /\ common_attachments = <<>>
    /\ row_index = 0
    /\ events = <<>>

-----------------------------------------------------------------------------
(* sort_wordlist run twice on one file.                                    *)

InitSort ==
    /\ pc = "sort_start"
    /\ exit_code = -1
    /\ wordlist_file \in WordlistFiles
    /\ sort_ret = NoneVal
    /\ first_file = NoneVal
    /\ first_ret = NoneVal
    /\ CertIdle
    /\ QrIdle
    /\ MailIdle

SortFirst ==
    /\ pc = "sort_start"
    /\ wordlist_file' = sort_wordlist_file(wordlist_file)
    /\ sort_ret' = sorted_names(wordlist_file)
    /\ first_file' = wordlist_file'
    /\ first_ret' = sort_ret'
    /\ pc' = "sorted_once"
    /\ UNCHANGED <<exit_code, notSort>>

SortSecond ==
    /\ pc = "sorted_once"
    /\ wordlist_file' = sort_wordlist_file(wordlist_file)
    /\ sort_ret' = sorted_names(wordlist_file)
    /\ pc' = "sorted_twice"
    /\ UNCHANGED <<exit_code, first_file, first_ret, notSort>>

NextSort == SortFirst \/ SortSecond

SpecSort == InitSort /\ [][NextSort]_vars

-----------------------------------------------------------------------------
(* Certificate_Generator/certificate_generator.py                          *)

\* get_files: the names in the directory that end with the lower-cased
\* extension.
get_files(directory, extension) ==
    {file \in directory : EndsWith(file, <<".">> \o LowerStr(extension))}

\* A get_single_file that takes the first of several files.
get_single_file_first(directory, extension) ==
    LET files == get_files(directory, extension)
    IN  IF Cardinality(files) >= 1
        THEN [ok |-> TRUE, file |-> CHOOSE f \in files : TRUE]
        ELSE [ok |-> FALSE, file |-> NoneVal]

\* get_single_file: the one file with the extension, or exit(1).
get_single_file(directory, extension) ==
    LET files == get_files(directory, extension)
    IN  IF Cardinality(files) = 1
        THEN [ok |-> TRUE, file |-> CHOOSE f \in files : TRUE]
        ELSE [ok |-> FALSE, file |-> NoneVal]

\* "_".join(name.split())
cert_filename(name) == Join(<<"_">>, SplitWs(name))

\* f"{filename}_certificate.pdf", the name under Generated_Certificates.
cert_output_name(name) ==
    cert_filename(name) \o
        <<"_", "c", "e", "r", "t", "i", "f", "i", "c", "a", "t", "e",
          ".", "p", "d", "f">>

\* What the user may type at select_font's prompt: -1 stands for text that
\* int() rejects.
FontInputs == {-1, 0, 1, 2}

FontDirs == { {}, {<<"f", ".", "t", "t", "f">>} }
TemplateDirs ==
    (SUBSET {<<"t", ".", "p", "d", "f">>, <<"u", ".", "p", "d", "f">>})
        \cup { {<<"t", ".", "P", "D", "F">>} }
WordlistDirs ==
    (SUBSET {<<"w", ".", "t", "x", "t">>, <<"v", ".", "t", "x", "t">>})
        \cup { {<<"w", ".", "T", "X", "T">>} }

InitCert ==
    /\ pc = "select_font"
    /\ exit_code = -1
    /\ wordlist_file \in WordlistFiles
    /\ SortIdle
    /\ fonts_dir \in FontDirs
    /\ template_dir \in TemplateDirs
    /\ wordlist_dir \in WordlistDirs
    /\ wordlist_contents = <<>>
    /\ idx = 0
    /\ out_files = {}
    /\ tmp_writes = 0
    /\ QrIdle
    /\ MailIdle

\* __main__ line 204: select_font()
SelectFont ==
    /\ pc = "select_font" /\ exit_code = -1
    /\ \E font \in FontInputs :
         LET truetype_font_files == get_files(fonts_dir, <<"T", "T", "F">>) IN
         IF Cardinality(truetype_font_files) < 1
                \/ font \notin 1..Cardinality(truetype_font_files)
         THEN exit_code' = 1 /\ pc' = pc
         ELSE exit_code' = exit_code /\ pc' = "get_template"
    /\ UNCHANGED <<certVars, notCert>>

\* __main__ line 211: get_single_file('Certificate_Template', ..., 'PDF')
GetTemplate ==
    /\ pc = "get_template" /\ exit_code = -1
    /\ IF get_single_file(template_dir, <<"P", "D", "F">>).ok
       THEN exit_code' = exit_code /\ pc' = "get_wordlist"
       ELSE exit_code' = 1 /\ pc' = pc
    /\ UNCHANGED <<certVars, notCert>>

\* __main__ line 215: get_single_file('Wordlist', ..., 'TXT')
GetWordlist ==
    /\ pc = "get_wordlist" /\ exit_code = -1
    /\ IF get_single_file(wordlist_dir, <<"T", "X", "T">>).ok
       THEN exit_code' = exit_code /\ pc' = "create_certificate"
       ELSE exit_code' = 1 /\ pc' = pc
    /\ UNCHANGED <<certVars, notCert>>

\* create_certificate, lines 133-139: the font is registered (a file that is
\* no TrueType font raises, uncaught) and the wordlist is read.
CreateCertificateStart ==
    /\ pc = "create_certificate" /\ exit_code = -1
    /\ \E font_ok \in BOOLEAN :
         IF font_ok
         THEN /\ wordlist_contents' = ReadLines(wordlist_file)
              /\ idx' = 1
              /\ pc' = "cert_loop"
              /\ exit_code' = exit_code
         ELSE /\ exit_code' = 1
              /\ UNCHANGED <<pc, wordlist_contents, idx>>
    /\ UNCHANGED <<fonts_dir, template_dir, wordlist_dir, out_files,
                   tmp_writes, notCert>>

\* create_certificate, lines 141-178: one pass of the loop.  A blank line is
\* skipped; otherwise the overlay is saved to the temporary file and the
\* merged page is written to the output file.  open() of a path with a "/"
\* in the file name raises FileNotFoundError, uncaught.
CertIteration ==
    /\ pc = "cert_loop" /\ exit_code = -1
    /\ idx <= Len(wordlist_contents)
    /\ LET name == Strip(wordlist_contents[idx]) IN
         IF name = <<>>
         THEN /\ idx' = idx + 1
              /\ UNCHANGED <<exit_code, out_files, tmp_writes>>
         ELSE /\ tmp_writes' = tmp_writes + 1
              /\ IF Contains(cert_filename(name), "/")
                 THEN /\ exit_code' = 1
                      /\ UNCHANGED <<idx, out_files>>
                 ELSE /\ out_files' = out_files \cup {cert_output_name(name)}
                      /\ idx' = idx + 1
                      /\ exit_code' = exit_code
    /\ UNCHANGED <<pc, fonts_dir, template_dir, wordlist_dir,
                   wordlist_contents, notCert>>

\* __main__ line 227: the loop is over, the success message is printed.
CertFinish ==
    /\ pc = "cert_loop" /\ exit_code = -1
    /\ idx > Len(wordlist_contents)
    /\ pc' = "cert_done"
    /\ exit_code' = 0
    /\ UNCHANGED <<certVars, notCert>>

NextCert ==
    \/ SelectFont
    \/ GetTemplate
    \/ GetWordlist
    \/ CreateCertificateStart
    \/ CertIteration
    \/ CertFinish

SpecCert == InitCert /\ [][NextCert]_vars

-----------------------------------------------------------------------------
(* Claims about the certificate flow.                                      *)

\* The characters the spec forbids in a generated file name.
NineForbiddenChars == {"\\", "/", ":", "*", "?", "\"", "<", ">", "|"}

HasForbiddenChar(s) == \E i \in 1..Len(s) : s[i] \in NineForbiddenChars

\* The non-blank names of a wordlist text, trimmed, in file order.
NamesOf(text) ==
    LET kept == NonBlankOnly(ReadLines(text))
    IN  [i \in DOMAIN kept |-> Strip(kept[i])]

PairwiseDistinct(l) ==
    \A i, j \in DOMAIN l : i # j => l[i] # l[j]

\* C1: when the certificate flow has completed on a wordlist of N non-blank,
\* pairwise distinct names, Generated_Certificates holds exactly N distinct
\* files, the underscore-joined name of each name plus _certificate.pdf.
C1_OneFilePerName ==
    (pc = "cert_done" /\ PairwiseDistinct(NamesOf(wordlist_file))) =>
        /\ Cardinality(out_files) = Len(NamesOf(wordlist_file))
        /\ out_files = {cert_output_name(n) : n \in Range(NamesOf(wordlist_file))}

\* C5: in a run whose wordlist holds a name with one of the nine forbidden
\* characters, no certificate and no temporary file is ever written.
C5_ForbiddenNamesWriteNothing ==
    (\E n \in Range(NamesOf(wordlist_file)) : HasForbiddenChar(n)) =>
        /\ out_files = {}
        /\ tmp_writes = 0

\* Where the script is once the template, resp. the wordlist, was returned.
AfterTemplate == {"get_wordlist", "create_certificate", "cert_loop", "cert_done"}
AfterWordlist == {"create_certificate", "cert_loop", "cert_done"}

NumFiles(directory, suffix) ==
    Cardinality({f \in directory : EndsWith(f, suffix)})

\* C10: get_single_file returns exactly when the directory holds one file
\* with the extension; with none or several the process has exit code 1,
\* and create_certificate was never entered, so nothing was written.
C10_SingleFileOrExit ==
    /\ pc \in AfterTemplate => NumFiles(template_dir, <<".", "p", "d", "f">>) = 1
    /\ pc \in AfterWordlist => NumFiles(wordlist_dir, <<".", "t", "x", "t">>) = 1
    /\ (pc = "get_template" /\ exit_code # -1) =>
           NumFiles(template_dir, <<".", "p", "d", "f">>) # 1 /\ exit_code = 1
    /\ (pc = "get_wordlist" /\ exit_code # -1) =>
           NumFiles(wordlist_dir, <<".", "t", "x", "t">>) # 1 /\ exit_code = 1
    /\ (NumFiles(template_dir, <<".", "p", "d", "f">>) # 1
            \/ NumFiles(wordlist_dir, <<".", "t", "x", "t">>) # 1) =>
           /\ pc \notin AfterWordlist
           /\ out_files = {}
           /\ tmp_writes = 0
           /\ wordlist_contents = <<>>

\* The template was returned (one PDF) and the run ended with exit code 1 at
\* the wordlist, of which the directory holds two.
C10_Witness ==
    /\ pc = "get_wordlist"
    /\ exit_code = 1
    /\ NumFiles(template_dir, <<".", "p", "d", "f">>) = 1
    /\ NumFiles(wordlist_dir, <<".", "t", "x", "t">>) = 2

-----------------------------------------------------------------------------
(* QRCode_Generator/qrcode_generator.py                                    *)

\* FORBIDDEN_CHARS = r'[\/:*?"<>|]': in the character class, \/ is an
\* escaped "/", so the class holds eight characters and no backslash.
FORBIDDEN_CHARS == {"/", ":", "*", "?", "\"", "<", ">", "|"}

\* re.search(FORBIDDEN_CHARS, filename)
re_search_forbidden(filename) ==
    \E i \in 1..Len(filename) : filename[i] \in FORBIDDEN_CHARS

\* extension_menu, lines 178-210: <<extension, image_format>> for the
\* stripped, lower-cased input, "exit" for option 7, <<None, None>> for
\* anything else.
extension_menu(typed) ==
    LET extension_type == Strip(LowerStr(typed)) IN
    IF extension_type \in {<<"1">>, <<"j", "p", "e", "g">>, <<>>} THEN <<<<"j", "p", "e", "g">>, <<"J", "P", "E", "G">>>>
    ELSE IF extension_type \in {<<"2">>, <<"j", "p", "g">>} THEN <<<<"j", "p", "g">>, <<"J", "P", "E", "G">>>>
    ELSE IF extension_type \in {<<"3">>, <<"p", "n", "g">>} THEN <<<<"p", "n", "g">>, <<"P", "N", "G">>>>
    ELSE IF extension_type \in {<<"4">>, <<"g", "i", "f">>} THEN <<<<"g", "i", "f">>, <<"G", "I", "F">>>>
    ELSE IF extension_type \in {<<"5">>, <<"t", "i", "f", "f">>} THEN <<<<"t", "i", "f", "f">>, <<"T", "I", "F", "F">>>>
    ELSE IF extension_type \in {<<"6">>, <<"b", "m", "p">>} THEN <<<<"b", "m", "p">>, <<"B", "M", "P">>>>
    ELSE IF extension_type \in {<<"7">>} THEN <<<<"e", "x", "i", "t">>, <<"e", "x", "i", "t">>>>
    ELSE <<NoneVal, NoneVal>>

Digits == <<"0", "1", "2", "3", "4", "5", "6", "7", "8", "9">>

\* str(n) for n >= 0
RECURSIVE IntStr(_)
IntStr(n) ==
    IF n < 10 THEN <<Digits[n + 1]>>
    ELSE IntStr(n \div 10) \o <<Digits[(n % 10) + 1]>>

\* generate_qrcode, lines 407-410: the loop that looks for a free name.
RECURSIVE free_path_loop(_, _, _, _, _)
free_path_loop(qr_image_path, counter, filename, extension, files) ==
    IF qr_image_path \in files
    THEN free_path_loop(filename \o <<"(">> \o IntStr(counter)
                            \o <<")", ".">> \o extension,
                        counter + 1, filename, extension, files)
    ELSE qr_image_path

\* A generate_qrcode that saves under the name as typed.
free_path_as_typed(filename, extension, files) ==
    filename \o <<".">> \o extension

\* generate_qrcode, lines 404-410: the name the image is saved under.
free_path(filename, extension, files) ==
    free_path_loop(filename \o <<".">> \o extension, 1, filename, extension,
                   files)

\* Utilities/utils.py get_single_file: the one file with the extension, or
\* exit(1) (after an empty wordlist.txt was made when no TXT file is there).
utils_get_single_file(directory, extension) ==
    LET files == {file \in directory :
                      EndsWith(file, <<".">> \o LowerStr(extension))}
    IN  IF Cardinality(files) = 1
        THEN [ok |-> TRUE, file |-> CHOOSE f \in files : TRUE]
        ELSE [ok |-> FALSE, file |-> NoneVal]

\* Utilities/utils.py select_font: whether a font is returned (else exit(1)).
utils_select_font_ok(fonts, font) ==
    LET truetype_font_files == {f \in fonts : EndsWith(f, <<".", "t", "t", "f">>)}
    IN  /\ Cardinality(truetype_font_files) >= 1
        /\ font \in 1..Cardinality(truetype_font_files)

\* Lines the user may type as the text.
QrInputLines == {<<>>, <<"a">>, <<" ", "a", " ">>, <<" ">>, <<"b">>}

\* Lines typed at get_text's prompt.
MaxTextLines == 3

\* What the user may type as the file name.
QrFilenameInputs ==
    {<<>>, <<"q">>, <<" ", "q", " ">>} \cup {<<"q", c, "r">> : c \in FORBIDDEN_CHARS \cup {"\\"}}

\* What the user may type at extension_menu's prompt.
QrExtensionInputs ==
    {<<>>, <<"1">>, <<"2">>, <<"3">>, <<"4">>, <<"5">>, <<"6">>, <<"7">>, <<"8">>, <<" ", "P", "N", "G", " ">>, <<"j", "p", "g">>,
     <<"j", "p", "e", "g">>, <<"g", "i", "f">>, <<"t", "i", "f", "f">>, <<"b", "m", "p">>, <<"x">>}

\* The files QRCodes may hold at the start.
QrExistingFiles == {<<"q", ".", "p", "n", "g">>, <<"q", "(", "1", ")", ".", "p", "n", "g">>, <<"q", "r", "c", "o", "d", "e", ".", "j", "p", "e", "g">>}

InitQr ==
    /\ pc = "get_text"
    /\ exit_code = -1
    /\ wordlist_file = <<>>
    /\ SortIdle
    /\ fonts_dir \in FontDirs
    /\ template_dir = {}
    /\ wordlist_dir = {}
    /\ wordlist_contents = <<>>
    /\ idx = 0
    /\ out_files = {}
    /\ tmp_writes = 0
    /\ qr_typed = <<>>
    /\ text_lines = <<>>
    /\ enter_pressed = 0
    /\ qr_text = NoneVal
    /\ qr_filename = NoneVal
    /\ qr_ext = <<NoneVal, NoneVal>>
    /\ qr_dir_exists \in BOOLEAN
    /\ qr_files \in (IF qr_dir_exists THEN SUBSET QrExistingFiles ELSE {{}})
    /\ qr_path = NoneVal
    /\ ext_typed = NoneVal
    /\ MailIdle

\* An input loop that ends at the first empty line.
loop_ends_single(pressed) == pressed > 0

\* get_text, lines 49-51: the loop ends when the count of empty lines in a
\* row has passed 1.
loop_ends(pressed) == pressed > 1

\* A get_text that returns the joined lines as they are.
input_text_unstripped(lines) == Join(<<"\n">>, lines)

\* get_text, line 59: input_text = '\n'.join(text_lines).strip()
input_text_of(lines) == Strip(Join(<<"\n">>, lines))

\* get_text, lines 42-57: one pass of the input loop.  The user types what
\* they like for the first MaxTextLines lines and presses Enter from then on.
QrReadLine ==
    /\ pc = "get_text" /\ exit_code = -1
    /\ \E line \in (IF Len(qr_typed) < MaxTextLines THEN QrInputLines
                    ELSE {<<>>}) :
         /\ qr_typed' = Append(qr_typed, line)
         /\ IF line = <<>>
            THEN /\ enter_pressed' = enter_pressed + 1
                 /\ IF loop_ends(enter_pressed + 1)
                    THEN pc' = "get_text_end" /\ UNCHANGED text_lines
                    ELSE pc' = pc /\ text_lines' = Append(text_lines, <<>>)
            ELSE /\ enter_pressed' = 0
                 /\ text_lines' = Append(text_lines, RStrip(line))
                 /\ pc' = pc
    /\ UNCHANGED <<exit_code, fonts_dir, qr_text, qr_filename, qr_ext,
                   qr_dir_exists, qr_files, qr_path, ext_typed, notQr>>

\* get_text, lines 59-65, and generate_qrcode line 334: the text is joined
\* and stripped; no text is exit(1).  The locals of get_text end with it.
QrGetText ==
    /\ pc = "get_text_end" /\ exit_code = -1
    /\ IF Strip(input_text_of(text_lines)) = <<>>
       THEN exit_code' = 1 /\ UNCHANGED <<pc, qr_text, getTextVars>>
       ELSE /\ qr_text' = input_text_of(text_lines)
            /\ pc' = "qr_style"
            /\ exit_code' = exit_code
            /\ qr_typed' = <<>>
            /\ text_lines' = <<>>
            /\ enter_pressed' = 0
    /\ UNCHANGED <<fonts_dir, qr_filename, qr_ext, qr_dir_exists, qr_files,
                   qr_path, ext_typed, notQr>>

\* generate_qrcode lines 349-374: the style and the background colour are
\* 1 or 2 (anything else is exit(1)); the QR image is made and the centre
\* image pasted (a failure to paste is only reported).
QrStyle ==
    /\ pc = "qr_style" /\ exit_code = -1
    /\ \E qr_style \in 0..2, background_color \in 0..2 :
         IF qr_style \notin {1, 2} \/ background_color \notin {1, 2}
         THEN exit_code' = 1 /\ pc' = pc
         ELSE exit_code' = exit_code /\ pc' = "qr_title"
    /\ UNCHANGED <<fonts_dir, qrVars, notQr>>

\* generate_qrcode lines 376-383: a title makes add_title ask for a font
\* (select_font: no font or a wrong index is exit(1)).
QrTitle ==
    /\ pc = "qr_title" /\ exit_code = -1
    /\ \E title \in {<<>>, <<" ">>, <<"t">>}, font \in FontInputs :
         IF Strip(title) # <<>> /\ ~utils_select_font_ok(fonts_dir, font)
         THEN exit_code' = 1 /\ pc' = pc
         ELSE exit_code' = exit_code /\ pc' = "qr_filename"
    /\ UNCHANGED <<fonts_dir, qrVars, notQr>>

\* generate_qrcode lines 384-396: the file name is read and stripped; a
\* forbidden character is exit(1); no name is "qrcode".
QrFilename ==
    /\ pc = "qr_filename" /\ exit_code = -1
    /\ \E typed \in QrFilenameInputs :
         LET filename == Strip(typed) IN
         /\ qr_filename' = (IF filename = <<>> THEN <<"q", "r", "c", "o", "d", "e">> ELSE filename)
         /\ IF re_search_forbidden(filename)
            THEN exit_code' = 1 /\ pc' = pc
            ELSE exit_code' = exit_code /\ pc' = "qr_extension"
    /\ UNCHANGED <<fonts_dir, getTextVars, qr_text, qr_ext, qr_dir_exists,
                   qr_files, qr_path, ext_typed, notQr>>

\* generate_qrcode lines 399-401: one call of extension_menu; <<None, None>>
\* asks again, option 7 is exit(0).
QrExtension ==
    /\ pc = "qr_extension" /\ exit_code = -1
    /\ \E typed \in QrExtensionInputs :
         LET got == extension_menu(typed) IN
         IF got[1] = <<"e", "x", "i", "t">>
         THEN exit_code' = 0 /\ ext_typed' = typed /\ UNCHANGED <<pc, qr_ext>>
         ELSE IF got[1] = NoneVal
         THEN ext_typed' = typed /\ UNCHANGED <<pc, exit_code, qr_ext>>
         ELSE /\ qr_ext' = got /\ pc' = "qr_save" /\ exit_code' = exit_code
              /\ ext_typed' = NoneVal
    /\ UNCHANGED <<fonts_dir, getTextVars, qr_text, qr_filename,
                   qr_dir_exists, qr_files, qr_path, notQr>>

\* generate_qrcode lines 403-418 and __main__ line 466: the directory is
\* made, a free name found and the image saved; a failed save is reported,
\* the path is returned all the same and the script ends normally.
QrSave ==
    /\ pc = "qr_save" /\ exit_code = -1
    /\ \E save_ok \in BOOLEAN :
         LET qr_image_path == free_path(qr_filename, qr_ext[1], qr_files) IN
         /\ qr_dir_exists' = TRUE
         /\ qr_path' = qr_image_path
         /\ qr_files' = (IF save_ok THEN qr_files \cup {qr_image_path}
                         ELSE qr_files)
    /\ pc' = "qr_done"
    /\ exit_code' = 0
    /\ UNCHANGED <<fonts_dir, getTextVars, qr_text, qr_filename, qr_ext,
                   ext_typed, notQr>>

NextQr ==
    \/ QrReadLine
    \/ QrGetText
    \/ QrStyle
    \/ QrTitle
    \/ QrFilename
    \/ QrExtension
    \/ QrSave

SpecQr == InitQr /\ [][NextQr]_vars

\* C4: once a file name holding one of the nine characters \ / : * ? " < > |
\* was entered, the process has exit code 1 and neither is the QRCodes
\* directory made nor any file written to it.
C4_NineCharsRejected ==
    (qr_filename # NoneVal /\ HasForbiddenChar(qr_filename)) =>
        /\ exit_code = 1
        /\ pc = "qr_filename"
        /\ qr_path = NoneVal
    /\ ext_typed = NoneVal

-----------------------------------------------------------------------------
(* Utilities/utils.py: the helpers of the email flow.                      *)

FULL_NAME == <<"F", "u", "l", "l", " ", "N", "a", "m", "e">>
EMAIL == <<"E", "m", "a", "i", "l">>
ATTACHMENTS == <<"A", "t", "t", "a", "c", "h", "m", "e", "n", "t", "s">>

\* s.replace(old, new) for a non-empty str old: every occurrence, from the
\* left, not overlapping.
RECURSIVE ReplaceSub(_, _, _)
ReplaceSub(s, old, new) ==
    IF Len(s) < Len(old) THEN s
    ELSE IF SubSeq(s, 1, Len(old)) = old
         THEN new \o ReplaceSub(SubSeq(s, Len(old) + 1, Len(s)), old, new)
         ELSE <<Head(s)>> \o ReplaceSub(Tail(s), old, new)

\* [x for x in l if x]
RECURSIVE NonEmptyOnly(_)
NonEmptyOnly(l) ==
    IF l = <<>> THEN <<>>
    ELSE (IF Head(l) # <<>> THEN <<Head(l)>> ELSE <<>>) \o NonEmptyOnly(Tail(l))

\* csv.reader over a file without quote characters: one list of fields per
\* line, an empty line giving the empty list DictReader skips.
csv_records(content) ==
    LET lines == NonEmptyOnly(SplitOn(content, "\n"))
    IN  [i \in DOMAIN lines |-> SplitOn(lines[i], ",")]

\* csv.DictReader: fieldnames is the first record, the rows are the others.
csv_fieldnames(content) ==
    IF csv_records(content) = <<>> THEN NoneVal ELSE Head(csv_records(content))

csv_rows(content) ==
    IF csv_records(content) = <<>> THEN <<>> ELSE Tail(csv_records(content))

\* key in reader.fieldnames
HasColumn(fieldnames, key) ==
    fieldnames # NoneVal /\ \E i \in 1..Len(fieldnames) : fieldnames[i] = key

\* row.get(key, default) on a row of DictReader: dict(zip(fieldnames, row)),
\* the columns past the end of a short row being None.
row_get(fieldnames, row, key, default) ==
    IF ~HasColumn(fieldnames, key) THEN default
    ELSE LET filled == {i \in 1..Len(fieldnames) :
                            fieldnames[i] = key /\ i <= Len(row)}
         IN  IF filled = {} THEN NoneVal
             ELSE row[CHOOSE i \in filled : \A j \in filled : j <= i]

\* os.path.join(directory, name) for a name without "/".
path_join(directory, name) == directory \o <<"/">> \o name

\* os.path.exists(path) for a path made by path_join(directory, ...): the
\* directory itself, or one of the files in it.
path_exists(path, directory, files) ==
    \/ path = directory \o <<"/">>
    \/ \E f \in files : path = path_join(directory, f)

\* default_html_code, lines 8-16: an HTML document inside one comment.
default_html_code ==
    <<"<", "!", "-", "-", " ", "<", "h", "t", "m", "l", ">", "\n", " ",
      " ", " ", " ", "<", "b", "o", "d", "y", ">", "\n", " ", " ", " ",
      " ", " ", " ", " ", " ", "<", "p", ">", "<", "s", "t", "r", "o", "n",
      "g", ">", "H", "e", "l", "l", "o", " ", "{", "{", "n", "a", "m", "e",
      "}", "}", "<", "/", "s", "t", "r", "o", "n", "g", ">", ",", "<", "/",
      "p", ">", "\n", " ", " ", " ", " ", " ", " ", " ", " ", "<", "p",
      ">", "H", "e", "r", "e", "'", "s", " ", "t", "h", "e", " ", "l", "i",
      "n", "k", " ", "t", "o", " ", "c", "l", "u", "b", " ", "w", "e", "b",
      "s", "i", "t", "e", " ", "<", "e", "m", ">", "<", "a", " ", "h", "r",
      "e", "f", "=", "\"", "h", "t", "t", "p", "s", ":", "/", "/", "c",
      "y", "b", "e", "r", "e", "l", "i", "t", "e", "s", ".", "o", "r", "g",
      "\"", " ", "t", "a", "r", "g", "e", "t", "=", "\"", "_", "b", "l",
      "a", "n", "k", "\"", ">", "C", "y", "b", "e", "r", "E", "l", "i",
      "t", "e", "s", "<", "/", "a", ">", "<", "/", "e", "m", ">", ".", " ",
      "E", "x", "p", "l", "o", "r", "e", " ", "m", "o", "r", "e", " ", "a",
      "b", "o", "u", "t", " ", "u", "s", " ", "h", "e", "r", "e", ".", "<",
      "/", "p", ">", "\n", " ", " ", " ", " ", " ", " ", " ", " ", "<",
      "p", ">", "T", "h", "a", "n", "k", " ", "y", "o", "u", " ", "f", "o",
      "r", " ", "b", "e", "i", "n", "g", " ", "p", "a", "r", "t", " ", "o",
      "f", " ", "o", "u", "r", " ", "c", "o", "m", "m", "u", "n", "i", "t",
      "y", "!", "<", "/", "p", ">", "\n", " ", " ", " ", " ", " ", " ",
      " ", " ", "<", "p", ">", "B", "e", "s", "t", " ", "r", "e", "g", "a",
      "r", "d", "s", ",", "<", "b", "r", ">", "<", "s", "t", "r", "o", "n",
      "g", ">", "C", "y", "b", "e", "r", "E", "l", "i", "t", "e", "s", " ",
      "C", "l", "u", "b", "<", "/", "s", "t", "r", "o", "n", "g", ">", "<",
      "/", "p", ">", "\n", " ", " ", " ", " ", "<", "/", "b", "o", "d",
      "y", ">", "\n", "<", "/", "h", "t", "m", "l", ">", " ", "-", "-",
      ">", "\n">>

\* check_gmail_app_password: the password, or None for exit(1).
check_gmail_app_password(file) ==
    IF file = NoneVal THEN NoneVal
    ELSE LET kept == NonBlankOnly(ReadLines(file))
             password == [i \in DOMAIN kept |-> Strip(kept[i])]
         IN  IF Len(password) # 1 \/ Count(password[1], " ") # 0
             THEN NoneVal
             ELSE password[1]

\* A template check without the test of lines 153-155 for one comment
\* around the whole file.
check_body_template_no_block_comment(file) ==
    IF file = NoneVal THEN FALSE
    ELSE LET lines == NonBlankOnly(ReadLines(file)) IN
         /\ lines # <<>>
         /\ ~ \A i \in 1..Len(lines) :
                 /\ StartsWith(LStrip(lines[i]), <<"<", "!", "-", "-">>)
                 /\ EndsWith(RStrip(lines[i]), <<"-", "-", ">">>)

\* check_body_template: TRUE when it returns, FALSE for exit(1).
check_body_template(file) ==
    IF file = NoneVal THEN FALSE
    ELSE LET lines == NonBlankOnly(ReadLines(file)) IN
         /\ lines # <<>>
         /\ ~ \A i \in 1..Len(lines) :
                 /\ StartsWith(LStrip(lines[i]), <<"<", "!", "-", "-">>)
                 /\ EndsWith(RStrip(lines[i]), <<"-", "-", ">">>)
         /\ ~ (/\ StartsWith(lines[1], <<"<", "!", "-", "-">>)
               /\ EndsWith(Strip(lines[Len(lines)]), <<"-", "-", ">">>))

\* A row check that takes a blank Full Name or Email for a value.
invalid_rows_none_only(content) ==
    LET fieldnames == csv_fieldnames(content)
        rows == csv_rows(content)
        bad(row) ==
            \/ row_get(fieldnames, row, FULL_NAME, <<>>) = NoneVal
            \/ row_get(fieldnames, row, EMAIL, <<>>) = NoneVal
    IN  {i + 1 : i \in {k \in 1..Len(rows) : bad(rows[k])}}

\* check_csv, lines 209-219: the row indices with no Full Name or no Email.
invalid_rows(content) ==
    LET fieldnames == csv_fieldnames(content)
        rows == csv_rows(content)
        bad(row) ==
            \/ row_get(fieldnames, row, FULL_NAME, <<>>) = NoneVal
            \/ row_get(fieldnames, row, EMAIL, <<>>) = NoneVal
            \/ Strip(row_get(fieldnames, row, FULL_NAME, <<>>)) = <<>>
            \/ Strip(row_get(fieldnames, row, EMAIL, <<>>)) = <<>>
    IN  {i + 1 : i \in {k \in 1..Len(rows) : bad(rows[k])}}

\* A check_csv that lets rows without a name or an address pass.
check_csv_no_row_check(content, attachment_mode) ==
    LET fieldnames == csv_fieldnames(content) IN
    /\ csv_rows(content) # <<>>
    /\ fieldnames # NoneVal
    /\ HasColumn(fieldnames, FULL_NAME)
    /\ HasColumn(fieldnames, EMAIL)
    /\ attachment_mode \in {"Respective", "Common"} =>
           HasColumn(fieldnames, ATTACHMENTS)

\* A check_csv that wants the Attachments column in every mode.
check_csv_attachments_always(content, attachment_mode) ==
    LET fieldnames == csv_fieldnames(content) IN
    /\ csv_rows(content) # <<>>
    /\ fieldnames # NoneVal
    /\ HasColumn(fieldnames, FULL_NAME)
    /\ HasColumn(fieldnames, EMAIL)
    /\ HasColumn(fieldnames, ATTACHMENTS)
    /\ invalid_rows(content) = {}

\* check_csv: TRUE when it returns, FALSE for exit(1).
check_csv(content, attachment_mode) ==
    LET fieldnames == csv_fieldnames(content) IN
    /\ csv_rows(content) # <<>>
    /\ fieldnames # NoneVal
    /\ HasColumn(fieldnames, FULL_NAME)
    /\ HasColumn(fieldnames, EMAIL)
    /\ attachment_mode \in {"Respective", "Common"} =>
           HasColumn(fieldnames, ATTACHMENTS)
    /\ invalid_rows(content) = {}

\* sorted(rows, key=lambda row: row.split(',')[1].strip()): one step of the
\* stable insertion.
csv_key(row) == Strip(SplitOn(row, ",")[2])

RECURSIVE InsertByKey(_, _)
InsertByKey(x, srt) ==
    IF srt = <<>> THEN <<x>>
    ELSE IF StrLess(csv_key(x), csv_key(Head(srt))) THEN <<x>> \o srt
    ELSE <<Head(srt)>> \o InsertByKey(x, Tail(srt))

RECURSIVE SortedByKey(_)
SortedByKey(l) ==
    IF l = <<>> THEN <<>>
    ELSE InsertByKey(l[Len(l)], SortedByKey(SubSeq(l, 1, Len(l) - 1)))

\* A sort_csv that pops the first data row along with the header.
sort_csv_pop_twice(content) ==
    LET rows == ReadLines(content)
        kept == IF Len(rows) < 2 THEN <<>>
                ELSE NonBlankOnly(Tail(Tail(rows)))
        data_rows == [i \in DOMAIN kept |-> Strip(kept[i])]
    IN  IF rows = <<>> \/ data_rows = <<>>
        THEN [result |-> "exit", file |-> content]
        ELSE [result |-> "ok",
              file |-> Join(<<"\n">>, <<Strip(rows[1])>> \o Sorted(data_rows))]

\* sort_csv: "ok" and the file it writes, "exit" for exit(1) (no line, no
\* data row), "raise" for the IndexError of a data row without a comma when
\* the rows are sorted by their second column.
sort_csv(content) ==
    LET rows == ReadLines(content)
        kept == IF rows = <<>> THEN <<>> ELSE NonBlankOnly(Tail(rows))
        data_rows == [i \in DOMAIN kept |-> Strip(kept[i])]
    IN  IF rows = <<>> \/ data_rows = <<>>
        THEN [result |-> "exit", file |-> content]
        ELSE IF Count(data_rows[1], ",") = 1
        THEN [result |-> "ok",
              file |-> Join(<<"\n">>, <<Strip(rows[1])>> \o Sorted(data_rows))]
        ELSE IF \E i \in DOMAIN data_rows : Count(data_rows[i], ",") = 0
        THEN [result |-> "raise", file |-> content]
        ELSE [result |-> "ok",
              file |-> Join(<<"\n">>,
                            <<Strip(rows[1])>> \o SortedByKey(data_rows))]

\* ATTACHMENTS_DIRECTORY_PATH, and the directory gen_certs_dir_path.txt names.
ATTACHMENTS_DIRECTORY_PATH == <<"/", "E", "m", "a", "i", "l", "_", "S", "e", "n", "d", "e", "r", "/", "A", "t", "t", "a", "c", "h", "m", "e", "n", "t", "s">>
GEN_CERTS_DIR_PATH == <<"/", "G", "e", "n", "e", "r", "a", "t", "e", "d", "_", "C", "e", "r", "t", "i", "f", "i", "c", "a", "t", "e", "s">>

CERTIFICATE_SUFFIX == <<"_", "c", "e", "r", "t", "i", "f", "i", "c", "a", "t", "e", ".", "p", "d", "f">>

\* f"{name.title().strip().replace(' ', '_')}_certificate.pdf"
other_attachment(name) ==
    Replace(Strip(Title(name)), " ", "_") \o CERTIFICATE_SUFFIX

\* check_attachments, lines 91-102: the rows reported in mode "Respective".
\* missing_files is set anew only by a row that lists attachments, and a
\* row is reported whenever it is not empty.
RECURSIVE respective_reported(_, _, _, _, _)
respective_reported(fieldnames, rows, k, missing_files, files) ==
    IF k > Len(rows) THEN <<>>
    ELSE LET cell == row_get(fieldnames, rows[k], ATTACHMENTS, <<>>)
             attachments == SplitOn(cell, ";")
             now_missing ==
                 IF cell # NoneVal /\ cell # <<>>
                 THEN SelectSeq(
                          [i \in DOMAIN attachments |-> Strip(attachments[i])],
                          LAMBDA path :
                              /\ path # <<>>
                              /\ ~path_exists(
                                      path_join(ATTACHMENTS_DIRECTORY_PATH, path),
                                      ATTACHMENTS_DIRECTORY_PATH, files))
                 ELSE missing_files
         IN  (IF now_missing # <<>> THEN <<k + 1>> ELSE <<>>)
                 \o respective_reported(fieldnames, rows, k + 1, now_missing,
                                        files)

\* check_attachments: "ok" when it returns, "exit" for exit(1), "raise" for
\* an exception nothing catches (no CSV file; a row without a Full Name in
\* mode "Other"; no Attachments column in mode "Common").
check_attachments(content, attachment_mode, files, certs) ==
    IF content = NoneVal THEN "raise"
    ELSE
    LET fieldnames == csv_fieldnames(content)
        rows == csv_rows(content)
    IN  IF attachment_mode = "Common"
        THEN IF rows = <<>> THEN "ok"
             ELSE IF ~HasColumn(fieldnames, ATTACHMENTS) THEN "raise"
             ELSE LET cell == row_get(fieldnames, rows[1], ATTACHMENTS, <<>>)
                      common == SplitOn(cell, ";")
                  IN  IF cell = NoneVal \/ cell = <<>> THEN "exit"
                      ELSE IF \E i \in DOMAIN common :
                                  \/ Strip(common[i]) = <<>>
                                  \/ ~path_exists(
                                         path_join(ATTACHMENTS_DIRECTORY_PATH,
                                                   common[i]),
                                         ATTACHMENTS_DIRECTORY_PATH, files)
                      THEN "exit"
                      ELSE "ok"
        ELSE IF attachment_mode = "Respective"
        THEN IF respective_reported(fieldnames, rows, 1, <<>>, files) # <<>>
             THEN "exit"
             ELSE "ok"
        ELSE IF attachment_mode = "Other"
        THEN IF \E k \in DOMAIN rows :
                    row_get(fieldnames, rows[k], FULL_NAME, <<>>) = NoneVal
             THEN "raise"
             ELSE IF \E k \in DOMAIN rows :
                         ~path_exists(
                             path_join(GEN_CERTS_DIR_PATH,
                                 other_attachment(Strip(Title(
                                     row_get(fieldnames, rows[k], FULL_NAME,
                                             <<>>))))),
                             GEN_CERTS_DIR_PATH, certs)
             THEN "exit"
             ELSE "ok"
        ELSE "ok"

\* add_attachment: open(attachment_path.strip()) finds the file.
attachment_found(attachment_path, directory, files) ==
    \E f \in files : Strip(attachment_path) = path_join(directory, f)

\* send_email, lines 42-56: the paths handed to add_attachment.
attachment_paths(attachments, automation) ==
    IF automation
    THEN <<path_join(GEN_CERTS_DIR_PATH, attachments)>>
    ELSE LET kept == SelectSeq(attachments, LAMBDA a : Strip(a) # <<>>)
         IN  [i \in DOMAIN kept |->
                  path_join(ATTACHMENTS_DIRECTORY_PATH, kept[i])]

\* A send_email that gives up on a message when an attachment is missing.
send_email_skip(recipient_email, name, subject, body, attachments, automation, files, certs, smtp) ==
    LET directory == IF automation THEN GEN_CERTS_DIR_PATH
                     ELSE ATTACHMENTS_DIRECTORY_PATH
        present == IF automation THEN certs ELSE files
        paths == attachment_paths(attachments, automation)
        lost == SelectSeq(paths, LAMBDA p : ~attachment_found(p, directory, present))
    IN  [kind |-> IF lost # <<>> THEN "failed_before_smtp" ELSE smtp,
         to |-> recipient_email,
         name |-> name,
         subject |-> subject,
         body |-> body,
         attachments |-> attachments,
         attached |-> SelectSeq(paths,
                         LAMBDA p : attachment_found(p, directory, present)),
         not_found |-> lost]

\* send_email: what it does for one recipient.  smtp is what the SMTP
\* session comes to: "sent", "auth" (SMTPAuthenticationError: exit(1)),
\* "dns" (gaierror: exit(1)) or "failed" (any other exception: logged).  A
\* path that add_attachment does not find is logged and left out.
send_email(recipient_email, name, subject, body, attachments, automation, files, certs, smtp) ==
    LET directory == IF automation THEN GEN_CERTS_DIR_PATH
                     ELSE ATTACHMENTS_DIRECTORY_PATH
        present == IF automation THEN certs ELSE files
        paths == attachment_paths(attachments, automation)
    IN  [kind |-> smtp,
         to |-> recipient_email,
         name |-> name,
         subject |-> subject,
         body |-> body,
         attachments |-> attachments,
         attached |-> SelectSeq(paths,
                         LAMBDA p : attachment_found(p, directory, present)),
         not_found |-> SelectSeq(paths,
                         LAMBDA p : ~attachment_found(p, directory, present))]

\* A send_email that goes on after a failed name lookup.
send_email_exits_auth_only(kind) == kind = "auth"

\* send_email, lines 76-81: the handlers that call exit(1).
send_email_exits(kind) == kind \in {"auth", "dns"}

\* What an SMTP session may come to.
SmtpOutcomes == {"sent", "failed", "auth", "dns"}

\* send_bulk_emails, lines 106-113: the first row's attachment list.
first_row_attachments(content) ==
    LET fieldnames == csv_fieldnames(content)
        rows == csv_rows(content)
        cell == row_get(fieldnames, rows[1], ATTACHMENTS, NoneVal)
    IN  IF cell # NoneVal /\ cell # <<>> THEN SplitOn(cell, ";") ELSE <<>>

\* A send loop that takes the attachment list of the row at hand.
row_attachments_current(content, k, mode, common, name) ==
    LET cell == row_get(csv_fieldnames(content), csv_rows(content)[k],
                        ATTACHMENTS, <<>>)
    IN  IF mode \in {"Respective", "Common"}
        THEN IF cell # NoneVal /\ cell # <<>> /\ Strip(cell) # <<>>
             THEN SplitOn(cell, ";")
             ELSE <<>>
        ELSE IF mode = "Other" THEN other_attachment(name)
        ELSE <<>>

\* send_bulk_emails, lines 131-144: the attachments of row k.
row_attachments(content, k, mode, common, name) ==
    LET cell == row_get(csv_fieldnames(content), csv_rows(content)[k],
                        ATTACHMENTS, <<>>)
    IN  IF mode = "Respective"
        THEN IF cell # NoneVal /\ cell # <<>> /\ Strip(cell) # <<>>
             THEN SplitOn(cell, ";")
             ELSE <<>>
        ELSE IF mode = "Common" THEN common
        ELSE IF mode = "Other" THEN other_attachment(name)
        ELSE <<>>

NAME_PLACEHOLDER == <<"{", "{", "n", "a", "m", "e", "}", "}">>

-----------------------------------------------------------------------------
(* Email_Sender/send_email.py                                              *)

\* Rows of a CSV file.
MaxRows == 2

PasswordFiles == {NoneVal, <<"p", "w", "\n">>, <<"p", " ", "w", "\n">>}

TemplateFiles ==
    {NoneVal,
     <<"<", "p", ">", "{", "{", "n", "a", "m", "e", "}", "}", " ", "{", "{", "n", "a", "m", "e", "}", "}", "<", "/", "p", ">", "\n">>,
     <<"<", "!", "-", "-", " ", "H", "i", " ", "-", "-", ">", "\n">>,
     default_html_code}

CsvHeaders == {<<"F", "u", "l", "l", " ", "N", "a", "m", "e", ",", "E", "m", "a", "i", "l", ",", "A", "t", "t", "a", "c", "h", "m", "e", "n", "t", "s">>, <<"F", "u", "l", "l", " ", "N", "a", "m", "e", ",", "E", "m", "a", "i", "l">>, <<"N", "a", "m", "e", ",", "E", "m", "a", "i", "l">>}

CsvLines ==
    {<<"b", " ", "a", ",", "y", ",", "f">>, <<"a", ",", "x", ",", "g", ";", "f">>, <<"a", ",", "x", ",", " ", "f", ";", "g">>, <<"c", ",", "z", ",">>, <<"c", ",", "z">>, <<"a">>, <<"a", ",", ",", "f">>,
     <<"b", ",", "x", ",", "h">>}

CsvFiles ==
    {Join(<<"\n">>, <<h>> \o ls) \o <<"\n">> :
        h \in CsvHeaders, ls \in SeqUpTo(CsvLines, MaxRows)}

SpreadsheetDirs == { {}, {<<"s", ".", "c", "s", "v">>}, {<<"s", ".", "c", "s", "v">>, <<"t", ".", "c", "s", "v">>} }

AttachmentFiles == {<<"f">>, <<"g">>}

GenCertsDirs ==
    { {<<"A", "_", "c", "e", "r", "t", "i", "f", "i", "c", "a", "t", "e", ".", "p", "d", "f">>},
      {<<"A", "_", "c", "e", "r", "t", "i", "f", "i", "c", "a", "t", "e", ".", "p", "d", "f">>, <<"B", "_", "A", "_", "c", "e", "r", "t", "i", "f", "i", "c", "a", "t", "e", ".", "p", "d", "f">>, <<"C", "_", "c", "e", "r", "t", "i", "f", "i", "c", "a", "t", "e", ".", "p", "d", "f">>,
       <<"B", "_", "c", "e", "r", "t", "i", "f", "i", "c", "a", "t", "e", ".", "p", "d", "f">>} }

\* The modes ATTACHMENT_MODE may be configured to (line 202), one of them
\* none of the three the script knows.
ConfiguredModes == {"None", "Common", "Respective", "Bogus"}

\* What an automation run may get as its second argument: nothing, the
\* configured subject, another subject.
SubjectArguments == {NoneVal, CONFIGURED_SUBJECT, <<"H", "i">>}

InitMail ==
    /\ pc = "mail_init"
    /\ exit_code = -1
    /\ wordlist_file = <<>>
    /\ SortIdle
    /\ CertIdle
    /\ QrIdle
    /\ automation_script \in BOOLEAN
    /\ sys_argv_2 \in (IF automation_script THEN SubjectArguments
                       ELSE {NoneVal})
    /\ EMAIL_SUBJECT = CONFIGURED_SUBJECT
    /\ ATTACHMENT_MODE \in (IF automation_script THEN {"Other"}
                            ELSE ConfiguredModes)
    /\ password_file \in PasswordFiles
    /\ body_template_file \in TemplateFiles
    /\ log_file_exists = FALSE
    /\ spreadsheet_dir \in (IF automation_script THEN {{}} ELSE SpreadsheetDirs)
    /\ csv_file \in (IF automation_script THEN CsvFiles \cup {NoneVal}
                     ELSE IF Cardinality(spreadsheet_dir) = 1 THEN CsvFiles
                     ELSE {NoneVal})
    /\ attachments_dir = AttachmentFiles
    /\ gen_certs_dir \in (IF automation_script THEN GenCertsDirs ELSE {{}})
    /\ common_attachments = <<>>
    /\ row_index = 0
    /\ events = <<>>

\* __main__ lines 204-223.  An automation run evaluates the comparison
\* "EMAIL_SUBJECT == sys.argv[2]" (line 211), which raises IndexError when
\* there is no second argument (the interpreter then ends the run with
\* exit code 1) and otherwise changes nothing.  Then
\* initialize_necessary_files: a normal run creates the body template (with
\* default_html_code) and the password file (empty) when they are missing;
\* an automation run creates the log file.
MailInit ==
    /\ pc = "mail_init" /\ exit_code = -1
    /\ IF automation_script
       THEN IF sys_argv_2 = NoneVal
            THEN /\ exit_code' = 1
                 /\ UNCHANGED <<pc, log_file_exists, body_template_file,
                                password_file>>
            ELSE /\ log_file_exists' = TRUE
                 /\ pc' = "check_password"
                 /\ exit_code' = exit_code
                 /\ UNCHANGED <<body_template_file, password_file>>
       ELSE /\ exit_code' = exit_code
            /\ body_template_file' =
                   (IF body_template_file = NoneVal THEN default_html_code
                    ELSE body_template_file)
            /\ password_file' =
                   (IF password_file = NoneVal THEN <<>> ELSE password_file)
            /\ pc' = "get_csv"
            /\ UNCHANGED log_file_exists
    /\ UNCHANGED <<idx, automation_script, sys_argv_2, EMAIL_SUBJECT,
                   ATTACHMENT_MODE, spreadsheet_dir, csv_file,
                   attachments_dir, gen_certs_dir, common_attachments,
                   row_index, events, notMail>>

\* __main__ lines 226-228: get_single_file('Spreadsheet', ..., 'CSV').
MailGetCsv ==
    /\ pc = "get_csv" /\ exit_code = -1
    /\ IF utils_get_single_file(spreadsheet_dir, <<"C", "S", "V">>).ok
       THEN exit_code' = exit_code /\ pc' = "check_password"
       ELSE exit_code' = 1 /\ pc' = pc
    /\ UNCHANGED <<idx, mailVars, notMail>>

\* __main__ line 230: check_gmail_app_password.
MailCheckPassword ==
    /\ pc = "check_password" /\ exit_code = -1
    /\ IF check_gmail_app_password(password_file) # NoneVal
       THEN exit_code' = exit_code /\ pc' = "check_body_template"
       ELSE exit_code' = 1 /\ pc' = pc
    /\ UNCHANGED <<idx, mailVars, notMail>>

\* __main__ line 232: check_body_template.
MailCheckBodyTemplate ==
    /\ pc = "check_body_template" /\ exit_code = -1
    /\ IF check_body_template(body_template_file)
       THEN /\ exit_code' = exit_code
            /\ pc' = (IF automation_script THEN "check_attachments"
                      ELSE "check_csv")
       ELSE exit_code' = 1 /\ pc' = pc
    /\ UNCHANGED <<idx, mailVars, notMail>>

\* __main__ line 236: check_csv, in a normal run only.
MailCheckCsv ==
    /\ pc = "check_csv" /\ exit_code = -1
    /\ IF check_csv(csv_file, ATTACHMENT_MODE)
       THEN exit_code' = exit_code /\ pc' = "sort_csv"
       ELSE exit_code' = 1 /\ pc' = pc
    /\ UNCHANGED <<idx, mailVars, notMail>>

\* __main__ line 237: sort_csv rewrites the CSV file.
MailSortCsv ==
    /\ pc = "sort_csv" /\ exit_code = -1
    /\ LET done == sort_csv(csv_file) IN
         IF done.result = "ok"
         THEN csv_file' = done.file /\ exit_code' = exit_code
                  /\ pc' = "check_attachments"
         ELSE exit_code' = 1 /\ UNCHANGED <<pc, csv_file>>
    /\ UNCHANGED <<idx, automation_script, sys_argv_2, EMAIL_SUBJECT,
                   ATTACHMENT_MODE, password_file,
                   body_template_file, log_file_exists, spreadsheet_dir,
                   attachments_dir, gen_certs_dir, common_attachments,
                   row_index, events, notMail>>

\* __main__ lines 238-241: check_attachments; a normal run then creates the
\* log file.
MailCheckAttachments ==
    /\ pc = "check_attachments" /\ exit_code = -1
    /\ IF check_attachments(csv_file, ATTACHMENT_MODE, attachments_dir,
                            gen_certs_dir) = "ok"
       THEN /\ exit_code' = exit_code
            /\ pc' = "send_bulk_emails"
            /\ log_file_exists' = TRUE
       ELSE exit_code' = 1 /\ UNCHANGED <<pc, log_file_exists>>
    /\ UNCHANGED <<idx, automation_script, sys_argv_2, EMAIL_SUBJECT,
                   ATTACHMENT_MODE, password_file,
                   body_template_file, spreadsheet_dir, csv_file,
                   attachments_dir, gen_certs_dir, common_attachments,
                   row_index, events, notMail>>

\* send_bulk_emails, lines 96-120: the template is read, the CSV opened, the
\* first row's attachments taken in mode "Common", row_index set to 2.
MailSendStart ==
    /\ pc = "send_bulk_emails" /\ exit_code = -1
    /\ common_attachments' =
           (IF ATTACHMENT_MODE = "Common" /\ csv_rows(csv_file) # <<>>
            THEN first_row_attachments(csv_file)
            ELSE common_attachments)
    /\ row_index' = 2
    /\ idx' = 1
    /\ pc' = "send_loop"
    /\ UNCHANGED <<exit_code, automation_script, sys_argv_2,
                   EMAIL_SUBJECT, ATTACHMENT_MODE,
                   password_file, body_template_file, log_file_exists,
                   spreadsheet_dir, csv_file, attachments_dir, gen_certs_dir,
                   events, notMail>>

\* A loop that takes a row again when its send failed.
after_row_retry(k, kind) == IF kind = "failed" THEN k ELSE k + 1

\* send_bulk_emails, line 121: "for row in reader" takes the next row,
\* whatever the row before came to.
after_row(k, kind) == k + 1

\* A body in which only the first placeholder gets the name.
RECURSIVE personalized_body_first_only(_, _)
personalized_body_first_only(body_template, name) ==
    IF Len(body_template) < Len(NAME_PLACEHOLDER) THEN body_template
    ELSE IF SubSeq(body_template, 1, Len(NAME_PLACEHOLDER)) = NAME_PLACEHOLDER
    THEN name \o SubSeq(body_template, Len(NAME_PLACEHOLDER) + 1,
                        Len(body_template))
    ELSE <<Head(body_template)>>
             \o personalized_body_first_only(Tail(body_template), name)

\* send_bulk_emails, line 148: body_template.replace("{{name}}", name)
personalized_body(body_template, name) ==
    ReplaceSub(body_template, NAME_PLACEHOLDER, name)

\* send_bulk_emails, lines 121-161: one row.  A row without Email or Full
\* Name raises ValueError, which is logged with row_index; a mode the script
\* does not know is exit(1); otherwise send_email is called, and
\* row_index goes up when it returns.
MailSendRow ==
    /\ pc = "send_loop" /\ exit_code = -1
    /\ idx <= Len(csv_rows(csv_file))
    /\ LET fieldnames == csv_fieldnames(csv_file)
           row == csv_rows(csv_file)[idx]
           email == row_get(fieldnames, row, EMAIL, <<>>)
           full_name == row_get(fieldnames, row, FULL_NAME, <<>>)
       IN  IF email = NoneVal \/ full_name = NoneVal
           THEN /\ events' = Append(events,
                        [kind |-> "row_error", row |-> idx,
                         row_index |-> row_index])
                /\ idx' = after_row(idx, "row_error")
                /\ UNCHANGED <<exit_code, row_index>>
           ELSE IF ATTACHMENT_MODE \notin
                       {"Respective", "Common", "Other", "None"}
           THEN /\ exit_code' = 1
                /\ UNCHANGED <<idx, row_index, events>>
           ELSE \E smtp \in SmtpOutcomes :
                  LET name == Strip(Title(full_name))
                      sent == send_email(
                                  Strip(LowerStr(email)), name,
                                  EMAIL_SUBJECT,
                                  personalized_body(body_template_file, name),
                                  row_attachments(csv_file, idx,
                                      ATTACHMENT_MODE, common_attachments,
                                      name),
                                  automation_script, attachments_dir,
                                  gen_certs_dir, smtp)
                  IN  /\ events' = Append(events,
                              [row |-> idx, row_index |-> row_index]
                                  @@ sent)
                      /\ IF send_email_exits(sent.kind)
                         THEN exit_code' = 1 /\ UNCHANGED <<idx, row_index>>
                         ELSE /\ idx' = after_row(idx, sent.kind)
                              /\ row_index' = row_index + 1
                              /\ exit_code' = exit_code
    /\ UNCHANGED <<pc, automation_script, sys_argv_2, EMAIL_SUBJECT,
                   ATTACHMENT_MODE, password_file,
                   body_template_file, log_file_exists, spreadsheet_dir,
                   csv_file, attachments_dir, gen_certs_dir,
                   common_attachments, notMail>>

\* send_bulk_emails returns and the script ends.
MailFinish ==
    /\ pc = "send_loop" /\ exit_code = -1
    /\ idx > Len(csv_rows(csv_file))
    /\ pc' = "mail_done"
    /\ exit_code' = 0
    /\ UNCHANGED <<idx, mailVars, notMail>>

NextMail ==
    \/ MailInit
    \/ MailGetCsv
    \/ MailCheckPassword
    \/ MailCheckBodyTemplate
    \/ MailCheckCsv
    \/ MailSortCsv
    \/ MailCheckAttachments
    \/ MailSendStart
    \/ MailSendRow
    \/ MailFinish

SpecMail == InitMail /\ [][NextMail]_vars

-----------------------------------------------------------------------------
(* Claims about the send loop                                              *)

\* The calls of send_email the run has made, as positions in events.
SendEvents == {i \in DOMAIN events : events[i].kind # "row_error"}

\* The cell of row k (1 is the first data row) under a column, as DictReader
\* gives it: NoneVal when the row is too short to have one.
CellOf(k, column) ==
    row_get(csv_fieldnames(csv_file), csv_rows(csv_file)[k], column, <<>>)

\* C2: in attachment mode "Common", every call of send_email, whichever row
\* it is for, gets exactly the semicolon-split Attachments cell of the first
\* data row of the CSV file.
C2_CommonUsesFirstRow ==
    ATTACHMENT_MODE = "Common" =>
        \A i \in SendEvents :
            events[i].attachments = SplitOn(CellOf(1, ATTACHMENTS), ";")

\* Two rows were sent to in mode "Common", and the second one's own cell
\* lists other attachments than the first one's.
C2_Witness ==
    /\ ATTACHMENT_MODE = "Common"
    /\ Len(events) = 2
    /\ events[2].kind = "sent"
    /\ events[2].row = 2
    /\ CellOf(2, ATTACHMENTS) # CellOf(1, ATTACHMENTS)
    /\ events[2].attachments = SplitOn(CellOf(1, ATTACHMENTS), ";")

\* C7: a failure confined to one row (a row that cannot be read, an SMTP
\* failure other than authentication or name lookup) is logged and the loop
\* goes on with the next row; an authentication or name-lookup failure ends
\* the run with exit code 1, and no later row is attempted.
C7_RowFailureContinuesAbortStops ==
    \A i \in DOMAIN events :
        /\ events[i].kind \in {"row_error", "failed"} =>
               IF i < Len(events)
               THEN events[i + 1].row = events[i].row + 1
               ELSE idx = events[i].row + 1 /\ exit_code \in {-1, 0}
        /\ events[i].kind \in {"auth", "dns"} =>
               i = Len(events) /\ exit_code = 1 /\ idx = events[i].row

\* A first row failed and was logged, the second was attempted, and its
\* name lookup failed, which ended the run.
C7_Witness ==
    /\ Len(events) = 2
    /\ events[1].kind = "failed"
    /\ events[2].kind = "dns"
    /\ events[2].row = 2
    /\ exit_code = 1
    /\ Len(csv_rows(csv_file)) > 1

\* Row k has no Email: the field is absent, or it is blank.
MissingEmail(k) ==
    CellOf(k, EMAIL) = NoneVal \/ Strip(CellOf(k, EMAIL)) = <<>>

RowsOfCsv == DOMAIN csv_rows(csv_file)

\* __main__ is at send_bulk_emails or past it.
Sending == pc \in {"send_bulk_emails", "send_loop", "mail_done"}

\* The loop went on to the row after the one events[i] is about.
WentOn(i) ==
    IF i < Len(events)
    THEN events[i + 1].row = events[i].row + 1
    ELSE idx = events[i].row + 1 /\ exit_code \in {-1, 0}

\* C3, as stated: when one row of the CSV file has no Email value, the run
\* is not stopped by that row; the row is logged and skipped, and no
\* message is sent for it.
C3_MissingEmailRowSkipped ==
    \A k \in RowsOfCsv :
        MissingEmail(k) =>
            /\ ~ (/\ pc = "check_csv" /\ exit_code = 1
                  /\ HasColumn(csv_fieldnames(csv_file), FULL_NAME)
                  /\ HasColumn(csv_fieldnames(csv_file), EMAIL)
                  /\ HasColumn(csv_fieldnames(csv_file), ATTACHMENTS))
            /\ \A i \in DOMAIN events :
                   events[i].row = k => events[i].kind = "row_error"

\* C3, amended: a normal run on a CSV file with a row whose Email is absent
\* or blank never gets past check_csv and sends nothing; in an automation
\* run, which does not call check_csv, a row whose Email field is absent is
\* logged and skipped, no message is sent for it, and the loop goes on to
\* the next row.
C3_CheckedInNormalSkippedInAutomation ==
    /\ (~automation_script /\ \E k \in RowsOfCsv : MissingEmail(k)) =>
           /\ events = <<>>
           /\ pc \in {"mail_init", "get_csv", "check_password",
                      "check_body_template", "check_csv"}
    /\ \A i \in DOMAIN events :
           CellOf(events[i].row, EMAIL) = NoneVal =>
               events[i].kind = "row_error" /\ WentOn(i)

\* An automation run logged a first row without an Email field and sent a
\* message for the second row.
C3_Witness ==
    /\ automation_script
    /\ Len(events) = 2
    /\ CellOf(1, EMAIL) = NoneVal
    /\ events[1].kind = "row_error"
    /\ events[2].kind = "sent"
    /\ events[2].row = 2

\* The files add_attachment finds, given the paths send_email makes.
NamesAFile(path, automation) ==
    IF automation
    THEN \E f \in gen_certs_dir :
             Strip(path) = GEN_CERTS_DIR_PATH \o <<"/">> \o f
    ELSE \E f \in attachments_dir :
             Strip(path) = ATTACHMENTS_DIRECTORY_PATH \o <<"/">> \o f

\* C8, as stated: a row with an attachment that is not found at send time
\* is skipped: no message is sent to its recipient.
C8_MissingAttachmentRowSkipped ==
    \A i \in SendEvents :
        events[i].not_found # <<>> => events[i].kind # "sent"

\* C8, amended: an attachment that is not found at send time is logged and
\* left out; the message still goes to the SMTP session with the attachments
\* that were found, and unless that session fails on authentication or name
\* lookup the loop goes on with the next row.
C8_MissingAttachmentLeftOut ==
    \A i \in SendEvents :
        events[i].not_found # <<>> =>
            /\ events[i].kind \in SmtpOutcomes
            /\ \A j \in DOMAIN events[i].attached :
                   NamesAFile(events[i].attached[j], automation_script)
            /\ \A j \in DOMAIN events[i].not_found :
                   ~NamesAFile(events[i].not_found[j], automation_script)
            /\ events[i].kind \in {"sent", "failed"} => WentOn(i)

\* A message was sent for a row one of whose attachments was not found, with
\* the one that was, and the next row was sent to as well.
C8_Witness ==
    /\ Len(events) = 2
    /\ events[1].kind = "sent"
    /\ events[1].not_found # <<>>
    /\ events[1].attached # <<>>
    /\ events[2].kind = "sent"

\* The CSV file is one check_csv is there to let through: it has a data
\* row, the columns the mode needs, and a Full Name and an Email in every
\* row.
CsvWellFormed ==
    /\ csv_file # NoneVal
    /\ RowsOfCsv # {}
    /\ HasColumn(csv_fieldnames(csv_file), FULL_NAME)
    /\ HasColumn(csv_fieldnames(csv_file), EMAIL)
    /\ ATTACHMENT_MODE \in {"Respective", "Common"} =>
           HasColumn(csv_fieldnames(csv_file), ATTACHMENTS)
    /\ \A k \in RowsOfCsv :
           /\ ~MissingEmail(k)
           /\ CellOf(k, FULL_NAME) # NoneVal
           /\ Strip(CellOf(k, FULL_NAME)) # <<>>

\* Every attachment the mode points at is a file that is there.
AttachmentsPresent ==
    CASE ATTACHMENT_MODE = "Common" ->
           RowsOfCsv # {} =>
               /\ CellOf(1, ATTACHMENTS) \notin {NoneVal, <<>>}
               /\ \A a \in Range(SplitOn(CellOf(1, ATTACHMENTS), ";")) :
                      a \in attachments_dir
      [] ATTACHMENT_MODE = "Respective" ->
           \A k \in RowsOfCsv :
               CellOf(k, ATTACHMENTS) \notin {NoneVal, <<>>} =>
                   \A a \in Range(SplitOn(CellOf(k, ATTACHMENTS), ";")) :
                       Strip(a) = <<>> \/ Strip(a) \in attachments_dir
      [] ATTACHMENT_MODE = "Other" ->
           \A k \in RowsOfCsv :
               /\ CellOf(k, FULL_NAME) # NoneVal
               /\ Replace(Strip(Title(CellOf(k, FULL_NAME))), " ", "_")
                      \o CERTIFICATE_SUFFIX \in gen_certs_dir
      [] OTHER -> TRUE

\* The password file holds one password, on one line, without a space.
PasswordPresent ==
    /\ password_file # NoneVal
    /\ \E pw \in Range(ReadLines(password_file)) :
           /\ Strip(pw) # <<>>
           /\ " " \notin Range(Strip(pw))
           /\ \A other \in Range(ReadLines(password_file)) :
                  Strip(other) # <<>> => other = pw

\* The body template has a line that is not blank and is not all comment.
TemplatePresent ==
    /\ body_template_file # NoneVal
    /\ \E line \in Range(ReadLines(body_template_file)) :
           /\ Strip(line) # <<>>
           /\ ~ StartsWith(LStrip(line), <<"<", "!", "-", "-">>)

\* C9, as stated: in the normal and in the automation mode alike, an SMTP
\* send is attempted only after the password check, the body-template
\* check, the CSV check and the attachment check have all passed.
C9_NoSendUnlessAllChecksPass ==
    SendEvents # {} =>
        /\ PasswordPresent
        /\ TemplatePresent
        /\ CsvWellFormed
        /\ AttachmentsPresent

\* C9, amended: in a normal run send_bulk_emails starts only after the
\* password, body-template, CSV and attachment checks have passed; an
\* automation run makes the password, body-template and attachment checks
\* only, and does not check the CSV file's rows.
C9_NoSendUnlessChecksOfModePass ==
    (Sending \/ events # <<>>) =>
        /\ PasswordPresent
        /\ TemplatePresent
        /\ ~automation_script => CsvWellFormed
        /\ AttachmentsPresent

\* An automation run passed its three checks and attempted a send for a
\* CSV file that check_csv would have stopped.
C9_Witness ==
    /\ automation_script
    /\ pc = "send_loop"
    /\ SendEvents # {}
    /\ PasswordPresent
    /\ TemplatePresent
    /\ AttachmentsPresent
    /\ ~CsvWellFormed

-----------------------------------------------------------------------------
(* Claims about exit codes, the wordlist, sort_csv and the QR flow         *)

\* C11: a run that met a fatal error ends with exit code 1; in particular a
\* QR run whose image could not be saved does not end with exit code 0.
C11_FailedSaveExitsOne ==
    (pc = "qr_done" /\ qr_path \notin qr_files) => exit_code = 1

\* C12: in one run of send_bulk_emails the rows are taken in the order of
\* the CSV file, and each row leads to at most one call of send_email and one
\* SMTP session: a failed send is not retried, no row is sent to twice.
C12_RowsInOrderOnce ==
    \A i \in DOMAIN events :
        /\ events[i].row = i
        /\ events[i].row \in RowsOfCsv
        /\ events[i].kind # "row_error" =>
               /\ events[i].kind \in SmtpOutcomes
               /\ events[i].name = Strip(Title(CellOf(i, FULL_NAME)))

\* The send for the first row failed, and the next and last event is the send
\* for the second row.
C12_Witness ==
    /\ Len(events) = 2
    /\ events[1].kind = "failed"
    /\ events[2].kind = "sent"
    /\ events[2].row = 2
    /\ pc = "mail_done"

\* check_csv on its own: called on every CSV file, in every mode there is.
InitCheckCsv ==
    /\ pc = "check_csv"
    /\ exit_code = -1
    /\ wordlist_file = <<>>
    /\ SortIdle
    /\ CertIdle
    /\ QrIdle
    /\ automation_script = FALSE
    /\ sys_argv_2 = NoneVal
    /\ EMAIL_SUBJECT = CONFIGURED_SUBJECT
    /\ ATTACHMENT_MODE \in ConfiguredModes \cup {"Other"}
    /\ password_file \in PasswordFiles \ {NoneVal}
    /\ body_template_file \in TemplateFiles \ {NoneVal}
    /\ log_file_exists = FALSE
    /\ spreadsheet_dir = {<<"s", ".", "c", "s", "v">>}
    /\ csv_file \in CsvFiles
    /\ attachments_dir = AttachmentFiles
    /\ gen_certs_dir = {}
    /\ common_attachments = <<>>
    /\ row_index = 0
    /\ events = <<>>

SpecCheckCsv == InitCheckCsv /\ [][MailCheckCsv]_vars

\* Every data row has a Full Name and an Email that are not blank.
RowsComplete ==
    \A k \in RowsOfCsv :
        /\ ~MissingEmail(k)
        /\ CellOf(k, FULL_NAME) # NoneVal
        /\ Strip(CellOf(k, FULL_NAME)) # <<>>

\* C13: check_csv ends the run with exit code 1 when the header has no Full
\* Name or no Email column, or has no Attachments column in mode "Respective"
\* or "Common"; the missing Attachments column is no reason to exit in any
\* other mode.
C13_RequiredColumns ==
    /\ ( \/ ~HasColumn(csv_fieldnames(csv_file), FULL_NAME)
         \/ ~HasColumn(csv_fieldnames(csv_file), EMAIL)
         \/ /\ ATTACHMENT_MODE \in {"Respective", "Common"}
            /\ ~HasColumn(csv_fieldnames(csv_file), ATTACHMENTS) )
       => (pc = "check_csv" /\ exit_code \in {-1, 1})
    /\ ( /\ pc = "check_csv" /\ exit_code = 1
         /\ HasColumn(csv_fieldnames(csv_file), FULL_NAME)
         /\ HasColumn(csv_fieldnames(csv_file), EMAIL)
         /\ RowsOfCsv # {}
         /\ RowsComplete )
       => ( /\ ATTACHMENT_MODE \in {"Respective", "Common"}
            /\ ~HasColumn(csv_fieldnames(csv_file), ATTACHMENTS) )

\* check_csv let a file without an Attachments column pass in mode "Other".
C13_Witness ==
    /\ pc = "sort_csv"
    /\ ATTACHMENT_MODE = "Other"
    /\ ~HasColumn(csv_fieldnames(csv_file), ATTACHMENTS)
    /\ HasColumn(csv_fieldnames(csv_file), FULL_NAME)

\* C14: every name the certificate flow draws and puts in an output file
\* name is a wordlist line trimmed and title-cased.
C14_NamesTrimmedAndTitled ==
    \A f \in out_files :
        \E n \in Range(NamesOf(wordlist_file)) :
            f = cert_output_name(Strip(Title(n)))

\* The lines of a text file without their line ends.
LinesOf(text) ==
    LET lines == ReadLines(text)
    IN  [i \in DOMAIN lines |->
             IF lines[i] # <<>> /\ lines[i][Len(lines[i])] = "\n"
             THEN SubSeq(lines[i], 1, Len(lines[i]) - 1)
             ELSE lines[i]]

\* C15: once the certificate flow has read the wordlist, the file holds one
\* name per line in ascending order and no blank line, and the names that
\* are processed are the lines of the file, in its order.
C15_WordlistSortedOnDisk ==
    pc \in {"cert_loop", "cert_done"} =>
        /\ \A i \in DOMAIN LinesOf(wordlist_file) :
               Strip(LinesOf(wordlist_file)[i]) # <<>>
        /\ \A i \in 1..(Len(LinesOf(wordlist_file)) - 1) :
               ~StrLess(LinesOf(wordlist_file)[i + 1],
                        LinesOf(wordlist_file)[i])
        /\ [i \in DOMAIN wordlist_contents |-> Strip(wordlist_contents[i])]
               = [i \in DOMAIN LinesOf(wordlist_file) |->
                      Strip(LinesOf(wordlist_file)[i])]

\* sort_csv on its own: called on CSV files with padded and blank lines too.
SortCsvHeaders == CsvHeaders \cup {<<"F", "u", "l", "l", " ", "N", "a", "m", "e", ",", "E", "m", "a", "i", "l", ",", "A", "t", "t", "a", "c", "h", "m", "e", "n", "t", "s", " ">>}

SortCsvLines == CsvLines \cup {<<" ", "c", ",", "z", " ">>, <<>>, <<" ">>, <<"b", ",", "w">>}

SortCsvFiles ==
    {Join(<<"\n">>, <<h>> \o ls) \o <<"\n">> :
        h \in SortCsvHeaders, ls \in SeqUpTo(SortCsvLines, MaxRows)}

InitSortCsv ==
    /\ pc = "sort_csv"
    /\ exit_code = -1
    /\ wordlist_file = <<>>
    /\ SortIdle
    /\ CertIdle
    /\ QrIdle
    /\ automation_script = FALSE
    /\ sys_argv_2 = NoneVal
    /\ EMAIL_SUBJECT = CONFIGURED_SUBJECT
    /\ ATTACHMENT_MODE = "None"
    /\ password_file = <<"p", "w", "\n">>
    /\ body_template_file = <<"<", "p", ">", "H", "i", "<", "/", "p", ">", "\n">>
    /\ log_file_exists = FALSE
    /\ spreadsheet_dir = {<<"s", ".", "c", "s", "v">>}
    /\ csv_file \in SortCsvFiles
    /\ attachments_dir = AttachmentFiles
    /\ gen_certs_dir = {}
    /\ common_attachments = <<>>
    /\ row_index = 0
    /\ events = <<>>

SpecSortCsv == InitSortCsv /\ [][MailSortCsv]_vars

\* The data rows of a CSV text: the lines after the first that are not
\* blank, each stripped.
DataRowsOf(text) ==
    LET kept == SelectSeq(Tail(LinesOf(text)), LAMBDA l : Strip(l) # <<>>)
    IN  [i \in DOMAIN kept |-> Strip(kept[i])]

\* How often x is in the sequence l.
Times(x, l) == Cardinality({i \in DOMAIN l : l[i] = x})

IsPermutation(a, b) ==
    /\ Len(a) = Len(b)
    /\ \A x \in Range(a) \cup Range(b) : Times(x, a) = Times(x, b)

\* C16, as stated: when sort_csv returns, the first line of the file is the
\* original header line and the other lines are a permutation of the
\* original non-blank data rows, each stripped.
C16_OnlyOrderChanges ==
    [][(pc = "sort_csv" /\ pc' = "check_attachments") =>
           /\ LinesOf(csv_file')[1] = LinesOf(csv_file)[1]
           /\ IsPermutation(Tail(LinesOf(csv_file')), DataRowsOf(csv_file))]_vars

\* C16, amended: when sort_csv returns, the first line of the file is the
\* original header line stripped of surrounding whitespace and the other
\* lines are a permutation of the original non-blank data rows, each
\* stripped; when it exits instead, the file is as it was.
C16_OrderStrippedHeader ==
    [][pc = "sort_csv" =>
           IF pc' = "check_attachments"
           THEN /\ LinesOf(csv_file')[1] = Strip(LinesOf(csv_file)[1])
                /\ IsPermutation(Tail(LinesOf(csv_file')),
                                 DataRowsOf(csv_file))
           ELSE csv_file' = csv_file /\ exit_code' = 1]_vars

\* sort_csv has returned and has written the file anew (without the final
\* line end), with two different data rows in it.
C16_Witness ==
    /\ pc = "check_attachments"
    /\ csv_file[Len(csv_file)] # "\n"
    /\ Len(DataRowsOf(csv_file)) = 2
    /\ DataRowsOf(csv_file)[1] # DataRowsOf(csv_file)[2]

\* The QR flow and the certificate flow side by side: a run is one or the
\* other.
SpecQrCert == (InitQr \/ InitCert) /\ [][NextQr \/ NextCert]_vars

\* {filename}({k}).{ext}
Numbered(filename, k, extension) ==
    filename \o <<"(">> \o IntStr(k) \o <<")", ".">> \o extension

\* C17: the QR flow saves to {filename}.{ext} when no such file is there,
\* else to {filename}({k}).{ext} for the least k >= 1 that is free, which is
\* at most the number of files in the directory; no file that was there is
\* replaced or removed.  The certificate flow writes
\* {name}_certificate.pdf whether or not it is there, and makes no other
\* name.
C17_QrNeverOverwritesCertDoes ==
    [][ /\ (pc = "qr_save" /\ pc' = "qr_done") =>
              /\ qr_path' \notin qr_files
              /\ qr_files \subseteq qr_files'
              /\ qr_files' \subseteq qr_files \cup {qr_path'}
              /\ IF qr_filename \o <<".">> \o qr_ext[1] \notin qr_files
                 THEN qr_path' = qr_filename \o <<".">> \o qr_ext[1]
                 ELSE \E k \in 1..Cardinality(qr_files) :
                          /\ qr_path' = Numbered(qr_filename, k, qr_ext[1])
                          /\ \A j \in 1..(k - 1) :
                                 Numbered(qr_filename, j, qr_ext[1])
                                     \in qr_files
        /\ (pc = "cert_loop" /\ idx <= Len(wordlist_contents)) =>
              LET name == Strip(wordlist_contents[idx]) IN
              /\ out_files \subseteq out_files'
              /\ out_files' \subseteq out_files \cup {cert_output_name(name)}
              /\ (idx' = idx + 1 /\ name # <<>>) =>
                     cert_output_name(name) \in out_files'
      ]_vars

\* The QR image was saved as q(2).png, q.png and q(1).png being there.
C17_Witness ==
    /\ pc = "qr_done"
    /\ qr_path = Numbered(<<"q">>, 2, <<"p", "n", "g">>)
    /\ qr_path \in qr_files
    /\ Numbered(<<"q">>, 1, <<"p", "n", "g">>) \in qr_files
    /\ <<"q", ".", "p", "n", "g">> \in qr_files

\* The lines typed before the two Enters that ended the input.
EnteredLines == SubSeq(qr_typed, 1, Len(qr_typed) - 2)

\* get_text returns to generate_qrcode with a text.
GetTextReturns == pc = "get_text_end" /\ pc' = "qr_style"

\* C18, as stated: the text handed to the QR encoder is the text the user
\* entered, exactly: the lines typed before the double Enter, with their
\* leading and trailing whitespace and every blank line.
C18_PayloadIsInputExactly ==
    [][GetTextReturns => qr_text' = Join(<<"\n">>, EnteredLines)]_vars

\* C18, amended: the text handed to the QR encoder is the text the user
\* entered with the trailing whitespace of every line removed and then the
\* leading and trailing whitespace of the whole text (blank lines at either
\* end included) removed; blank lines inside the text and the leading
\* whitespace of every line but the first are kept.
C18_PayloadIsInputTrimmed ==
    [][GetTextReturns =>
           qr_text' = Strip(Join(<<"\n">>,
                          [i \in DOMAIN EnteredLines |->
                               RStrip(EnteredLines[i])]))]_vars

\* get_text returned "a", a blank line and " a" for the lines "a", "" and
\* " a " (or the like).
C18_Witness ==
    /\ pc = "qr_style"
    /\ qr_text = <<"a", "\n", "\n", " ", "a">>

\* sub is a part of s.
Occurs(sub, s) ==
    \E i \in 1..(Len(s) - Len(sub) + 1) : SubSeq(s, i, i + Len(sub) - 1) = sub

\* The Full Name of the row events[i] is about, trimmed and title-cased.
NameOfEvent(i) == Strip(Title(CellOf(events[i].row, FULL_NAME)))

\* C19: the body sent for a row is the template file with every {{name}}
\* replaced by that row's trimmed, title-cased Full Name: no placeholder is
\* left, the template file is what it was, and the name of an earlier row is
\* in the body only where it is part of the row's own name.
C19_BodyFromTemplateAndOwnName ==
    \A i \in SendEvents :
        /\ events[i].body =
               ReplaceSub(body_template_file, NAME_PLACEHOLDER, NameOfEvent(i))
        /\ ~Occurs(NAME_PLACEHOLDER, events[i].body)
        /\ body_template_file \in TemplateFiles \cup {default_html_code}
        /\ \A j \in SendEvents :
               (j < i /\ Occurs(NameOfEvent(j), events[i].body)) =>
                   Occurs(NameOfEvent(j), NameOfEvent(i))

\* Two rows with names of which neither is part of the other were sent a
\* body, each with its own name in it, from a template with a placeholder.
C19_Witness ==
    /\ Len(events) = 2
    /\ SendEvents = {1, 2}
    /\ Occurs(NAME_PLACEHOLDER, body_template_file)
    /\ ~Occurs(NameOfEvent(1), NameOfEvent(2))
    /\ ~Occurs(NameOfEvent(2), NameOfEvent(1))
    /\ Occurs(NameOfEvent(1), events[1].body)
    /\ Occurs(NameOfEvent(2), events[2].body)

\* Lines i and i + 1 typed at get_text's prompt are both empty.
DoubleEnterAt(i) == qr_typed[i] = <<>> /\ qr_typed[i + 1] = <<>>

\* C20: get_text's input loop ends exactly at the first two empty lines in
\* a row; while it reads, the count of empty lines in a row is 0 or 1; every
\* line read, a single empty one too, is a line of the text (without its
\* trailing whitespace), but for the last Enter; and a text that is empty or
\* all whitespace is exit code 1, never a return.
C20_EndsAtFirstDoubleEnter ==
    /\ pc = "get_text" =>
           /\ enter_pressed \in {0, 1}
           /\ enter_pressed = 1 <=>
                  (qr_typed # <<>> /\ qr_typed[Len(qr_typed)] = <<>>)
           /\ \A i \in 1..(Len(qr_typed) - 1) : ~DoubleEnterAt(i)
           /\ text_lines = [i \in DOMAIN qr_typed |-> RStrip(qr_typed[i])]
    /\ pc = "get_text_end" =>
           /\ Len(qr_typed) >= 2
           /\ \A i \in 1..(Len(qr_typed) - 1) :
                  DoubleEnterAt(i) <=> i = Len(qr_typed) - 1
           /\ text_lines = [i \in 1..(Len(qr_typed) - 1) |->
                                RStrip(qr_typed[i])]
           /\ exit_code # -1 =>
                  /\ exit_code = 1
                  /\ \A i \in DOMAIN qr_typed : Strip(qr_typed[i]) = <<>>
    /\ pc \notin {"get_text", "get_text_end"} =>
           qr_text # NoneVal /\ Strip(qr_text) # <<>>

\* The loop ended at the fourth and fifth line, both empty, after "a", an
\* empty line and "b", and the empty line between them is a line of the text.
C20_Witness ==
    /\ pc = "get_text_end"
    /\ qr_typed = <<<<"a">>, <<>>, <<"b">>, <<>>, <<>>>>
    /\ text_lines = <<<<"a">>, <<>>, <<"b">>, <<>>>>

\* C21: when the option typed at extension_menu's prompt is not one of the
\* menu, the process ends (SystemExit).
C21_InvalidOptionExits ==
    (/\ pc = "qr_extension"
     /\ ext_typed # NoneVal
     /\ extension_menu(ext_typed) = <<NoneVal, NoneVal>>) => exit_code # -1

\* The data rows (1 is the first) that list an attachment that is not blank
\* and is not a file of the attachments directory.
RowsWithMissing ==
    {k \in RowsOfCsv :
        /\ CellOf(k, ATTACHMENTS) \notin {NoneVal, <<>>}
        /\ \E a \in Range(SplitOn(CellOf(k, ATTACHMENTS), ";")) :
               Strip(a) # <<>> /\ Strip(a) \notin attachments_dir}

\* C22: in mode "Respective" check_attachments exits with code 1 exactly
\* when some row lists a non-blank attachment that is not there, and the row
\* indices it reports (the header being row 1) are exactly those of such
\* rows: a row with an empty Attachments cell is not reported.
C22_RespectiveReportsExactlyMissing ==
    (pc = "check_attachments" /\ ATTACHMENT_MODE = "Respective") =>
        /\ exit_code = 1 => RowsWithMissing # {}
        /\ Range(respective_reported(csv_fieldnames(csv_file),
                                     csv_rows(csv_file), 1, <<>>,
                                     attachments_dir))
               = {k + 1 : k \in RowsWithMissing}

\* C23: after check_attachments has passed in mode "Respective" or
\* "Common", every attachment entry of a row that is not blank is found and
\* attached when the row is sent: none is reported as not found.
C23_CheckedAttachmentsAreFound ==
    ATTACHMENT_MODE \in {"Respective", "Common"} =>
        \A i \in SendEvents :
            /\ events[i].not_found = <<>>
            /\ Len(events[i].attached) =
                   Cardinality({j \in DOMAIN events[i].attachments :
                                    Strip(events[i].attachments[j]) # <<>>})

\* C24: the file the certificate flow writes for a wordlist name is the
\* file the email flow looks for in mode "Other" for that name.
C24_OtherModeNameIsCertificateName ==
    \A f \in out_files :
        \E n \in Range(NamesOf(wordlist_file)) :
            f = cert_output_name(n) /\ f = other_attachment(n)

\* C25: the row index logged with "Error processing recipient row" is the
\* line of that row in the CSV file, the header being line 1.
C25_LoggedRowIndexIsLine ==
    \A i \in DOMAIN events :
        events[i].kind = "row_error" =>
            events[i].row_index = events[i].row + 1

\* C26: on a file check_csv accepts, sort_csv never ends the run, and
\* running it again on the file it wrote gives that same file.
C26_SortCsvIdempotentAndTotal ==
    check_csv(csv_file, ATTACHMENT_MODE) =>
        /\ pc = "sort_csv" => exit_code = -1
        /\ pc = "check_attachments" =>
               sort_csv(csv_file) = [result |-> "ok", file |-> csv_file]


\* ---------------------------------------------------------------------------
\* C27: initialize_necessary_files creates only the files that are missing
\* and leaves the existing ones as they are: after it, in a normal run, an
\* existing body template and password file are unchanged, a missing
\* template holds default_html_code and a missing password file is empty;
\* in an automation run neither is touched.  check_body_template rejects
\* default_html_code, so a run whose template is the default one, written
\* by this run or left by an earlier one, never gets past
\* check_body_template, sends nothing, never ends with exit code 0, and
\* ends with exit code 1 at the template check when it gets there.
C27_StartedWithDefault ==
    body_template_file = default_html_code =>
          /\ pc \in {"mail_init", "get_csv", "check_password",
                      "check_body_template"}
          /\ exit_code \in {-1, 1}
          /\ events = <<>>

C27_DefaultTemplateBlocksRun ==
    [][/\ pc = "mail_init" =>
             /\ body_template_file # NoneVal =>
                   body_template_file' = body_template_file
             /\ password_file # NoneVal => password_file' = password_file
             /\ (~ automation_script /\ body_template_file = NoneVal) =>
                   body_template_file' = default_html_code
             /\ (~ automation_script /\ password_file = NoneVal) =>
                   password_file' = <<>>
             /\ automation_script =>
                   /\ body_template_file' = body_template_file
                   /\ password_file' = password_file
       /\ (pc = "check_body_template"
             /\ body_template_file = default_html_code) =>
             /\ ~ check_body_template(body_template_file)
             /\ exit_code' = 1
       /\ C27_StartedWithDefault'
       /\ pc # "mail_init" =>
             /\ body_template_file' = body_template_file
             /\ password_file' = password_file]_vars

\* A first run that found no template, wrote the default one, had a CSV
\* file and a good password, and was stopped by the template check.
C27_Witness ==
    /\ pc = "check_body_template"
    /\ exit_code = 1
    /\ ~ automation_script
    /\ body_template_file = default_html_code
    /\ check_gmail_app_password(password_file) # NoneVal
    /\ events = <<>>

\* ---------------------------------------------------------------------------
\* C28: the Subject header of every message handed to the SMTP session is
\* the second command-line argument in an automation run and the configured
\* EMAIL_SUBJECT in a normal run.
C28_SubjectFromArgumentOrConfig ==
    \A i \in SendEvents :
        events[i].subject = (IF automation_script THEN sys_argv_2
                             ELSE CONFIGURED_SUBJECT)
=============================================================================
